---- MODULE Spec2Model ----
(***************************************************************************)
(* Model of the URL-to-PDF conversion service (src/services/pdfService.js):*)
(*   convertUrlToPdf  - one request to the rendering service               *)
(*   downloadPdf      - streamed download with one redirect hop            *)
(*   processUrls      - batch scheduler (batches of 5, pacing delay)       *)
(*   parseUrls        - text / delimited input parser                      *)
(* Strings that the code inspects character by character (input text, file *)
(* names) are sequences of one-character strings.                          *)
(***************************************************************************)
EXTENDS Integers, Sequences, FiniteSets, TLC

VARIABLES
    \* processUrls
    urls,       \* the work items handed to processUrls
    results,    \* { success: [], failed: [], total }
    i,          \* loop variable of the batch loop
    pc,         \* position of processUrls: "loop", "join", "delay", "done", "rejected"
    task,       \* state of each item's batch promise
    hist,       \* per item: what convertUrlToPdf / downloadPdf returned (history)
    events,     \* the events handed to onProgress, in emission order
    batches,    \* sizes of the batches scheduled so far (history)
    delays,     \* number of pacing delays started so far (history)
    \* convertUrlToPdf
    conv,
    \* downloadPdf
    dl,
    \* parseUrls
    input,
    parsed,
    \* sendPdfsViaEmail
    mail,
    \* uploadPdfsToSharedFolder
    drive,
    \* job registry
    job,        \* the job record
    lastRead,   \* the record the last status query returned
    \* concurrent calls
    runs,       \* the processUrls runs in progress
    clients,    \* the cached Drive client and mail transporter, and their callers
    pair,       \* concurrent downloadPdf calls on one local path
    posts,      \* concurrent sendPdfsViaEmail calls on one archive path
    poll        \* the browser client's pollJobStatus

schedVars == <<urls, results, i, pc, task, hist, events, batches, delays>>
convVars  == <<conv>>
dlVars    == <<dl>>
parseVars == <<input, parsed>>
mailVars  == <<mail>>
driveVars == <<drive>>
jobVars   == <<job, lastRead>>
concVars  == <<runs, clients, pair, posts, poll>>
vars == <<urls, results, i, pc, task, hist, events, batches, delays, conv, dl, input, parsed,
          mail, drive, job, lastRead, runs, clients, pair, posts, poll>>

\* no concurrent calls are in progress and no client is polling
ConcIdle ==
    /\ poll = <<>>
    /\ runs = <<>>
    /\ clients = <<>>
    /\ pair = <<>>
    /\ posts = <<>>

Null == "null"

----------------------------------------------------------------------------
(* Bounds *)

MaxItems == 6       \* processUrls is run on 0..MaxItems work items
MaxItemsNoKey == 12 \* ... and on 0..MaxItemsNoKey items when the API key is unset:
                    \* every conversion is then rejected at once, in call order

----------------------------------------------------------------------------
(* Generic helpers *)

Min(a, b) == IF a < b THEN a ELSE b

\* Math.ceil(a / b) for a >= 0, b > 0
Ceil(a, b) == (a + b - 1) \div b

\* String(n).padStart(3, '0') for 0 <= n <= 999
Digit(d) == <<"0", "1", "2", "3", "4", "5", "6", "7", "8", "9">>[d + 1]

PadStart3(n) == <<Digit((n \div 100) % 10), Digit((n \div 10) % 10), Digit(n % 10)>>

\* `PDF_${String(n).padStart(3, '0')}.pdf`
DefaultFileName(n) == <<"P", "D", "F", "_">> \o PadStart3(n) \o <<".", "p", "d", "f">>

----------------------------------------------------------------------------
(* convertUrlToPdf (pdfService.js 11-70) *)

MaxChunks == 2      \* a response body arrives in at most MaxChunks 'data' events

Absent == "absent"              \* a property the decoded object does not have
Undefined == "undefined"        \* process.env.API2PDF_API_KEY when it is not set

\* const API_KEY = process.env.API2PDF_API_KEY
ApiKeys == {Undefined, "key"}

Statuses == {200, 404, 500}     \* status codes of the rendering service's responses

Is2xx(status) == status \div 100 = 2

FieldValues == {Absent, "", "v"}

\* What the response body is once all chunks are concatenated: text that
\* JSON.parse rejects, the JSON value null, or a JSON object.
Bodies ==
    {[kind |-> "malformed", FileUrl |-> Absent, Error |-> Absent, error |-> Absent],
     [kind |-> "null", FileUrl |-> Absent, Error |-> Absent, error |-> Absent]}
    \cup [kind : {"object"}, FileUrl : FieldValues, Error : FieldValues, error : FieldValues]

\* JavaScript truthiness of a string-valued property
Truthy(v) == v \notin {Absent, ""}

\* a || b || c on string-valued properties
OrElse(a, b) == IF Truthy(a) THEN a ELSE b

ConvSuccess(fileUrl, fileName) ==
    [success |-> TRUE, fileUrl |-> fileUrl, error |-> Absent, fileName |-> fileName]

ConvFailure(error, fileName) ==
    [success |-> FALSE, fileUrl |-> Absent, error |-> error, fileName |-> fileName]

\* The res.on('end') handler: JSON.parse, then the FileUrl test.  Reading
\* .FileUrl of null throws a TypeError that the same catch turns into a
\* failure.
OnEnd(body, fileName) ==
    IF body.kind = "malformed"
    THEN ConvFailure("JSON parse error: Unexpected token", fileName)
    ELSE IF body.kind = "null"
    THEN ConvFailure("JSON parse error: Cannot read properties of null", fileName)
    ELSE IF Truthy(body.FileUrl)
    THEN ConvSuccess(body.FileUrl, fileName)
    ELSE ConvFailure(OrElse(body.Error, OrElse(body.error, "Unknown API error")), fileName)

\* resolve(v): settles a pending promise, no effect on a settled one
Resolve(c, v) ==
    IF c.promise = "pending"
    THEN [c EXCEPT !.promise = "fulfilled", !.value = v, !.resolveCalls = @ + 1]
    ELSE [c EXCEPT !.resolveCalls = @ + 1]

\* reject(e): settles a pending promise, no effect on a settled one
Reject(c, e) ==
    IF c.promise = "pending"
    THEN [c EXCEPT !.promise = "rejected", !.value = e, !.resolveCalls = @ + 1]
    ELSE [c EXCEPT !.resolveCalls = @ + 1]

\* an exception thrown inside the promise executor rejects the promise
ExecutorThrow(c, e) == [c EXCEPT !.promise = "rejected", !.value = e]

ConvFileNames == {<<"a">>, DefaultFileName(1)}

ConvIdle ==
    [apiKey |-> "key", fileName |-> <<>>, req |-> "none", status |-> 0, body |-> Null,
     received |-> 0, promise |-> "pending", value |-> Null, resolveCalls |-> 0,
     hangup |-> FALSE, last |-> "none"]

\* The promise executor: https.request(reqOptions, ...) validates the headers
\* and throws on 'Authorization': undefined; otherwise the request is sent.
CvRequest ==
    /\ conv.req = "none" /\ conv.promise = "pending"
    /\ conv' = IF conv.apiKey = Undefined
               THEN ExecutorThrow([conv EXCEPT !.last = "request"],
                                  "Invalid value \"undefined\" for header \"Authorization\"")
               ELSE [conv EXCEPT !.req = "sent", !.last = "request"]
    /\ UNCHANGED <<schedVars, dlVars, parseVars, mailVars, driveVars, jobVars, concVars>>

\* the 'response' event: status line and headers have arrived
CvResponse ==
    /\ conv.req = "sent"
    /\ \E st \in Statuses, b \in Bodies :
         conv' = [conv EXCEPT !.req = "response", !.status = st, !.body = b,
                              !.last = "response"]
    /\ UNCHANGED <<schedVars, dlVars, parseVars, mailVars, driveVars, jobVars, concVars>>

\* res.on('data', chunk => data += chunk)
CvData ==
    /\ conv.req = "response" /\ conv.received < MaxChunks
    /\ conv' = [conv EXCEPT !.received = @ + 1, !.last = "data"]
    /\ UNCHANGED <<schedVars, dlVars, parseVars, mailVars, driveVars, jobVars, concVars>>

\* res.on('end', ...)
CvEnd ==
    /\ conv.req = "response"
    /\ conv' = Resolve([conv EXCEPT !.req = "ended", !.last = "end"],
                       OnEnd(conv.body, conv.fileName))
    /\ UNCHANGED <<schedVars, dlVars, parseVars, mailVars, driveVars, jobVars, concVars>>

NetErrors == {"ECONNREFUSED", "ENOTFOUND"}

\* req.on('error', ...): a network error before any response
CvError ==
    /\ conv.req = "sent"
    /\ \E e \in NetErrors :
         conv' = Resolve([conv EXCEPT !.req = "failed", !.last = "error"],
                         ConvFailure(e, conv.fileName))
    /\ UNCHANGED <<schedVars, dlVars, parseVars, mailVars, driveVars, jobVars, concVars>>

\* mutant: the timeout handler rejects instead of resolving
CvTimeout_Reject ==
    /\ conv.req \in {"sent", "response"}
    /\ conv' = Reject([conv EXCEPT !.req = "destroyed", !.hangup = (conv.req = "sent"),
                                   !.last = "timeout"],
                      "Request timeout")
    /\ UNCHANGED <<schedVars, dlVars, parseVars, mailVars, driveVars, jobVars, concVars>>

\* req.setTimeout(60000, ...): req.destroy(), then resolve.  Destroying a
\* request that has no response yet makes it emit 'error' (socket hang up).
CvTimeout ==
    /\ conv.req \in {"sent", "response"}
    /\ conv' = Resolve([conv EXCEPT !.req = "destroyed", !.hangup = (conv.req = "sent"),
                                    !.last = "timeout"],
                       ConvFailure("Request timeout", conv.fileName))
    /\ UNCHANGED <<schedVars, dlVars, parseVars, mailVars, driveVars, jobVars, concVars>>

\* the 'error' event of the destroyed request reaches req.on('error', ...)
CvHangup ==
    /\ conv.hangup
    /\ conv' = Resolve([conv EXCEPT !.hangup = FALSE, !.last = "error"],
                       ConvFailure("socket hang up", conv.fileName))
    /\ UNCHANGED <<schedVars, dlVars, parseVars, mailVars, driveVars, jobVars, concVars>>

\* the connection closes in the middle of the body: the response is aborted,
\* no 'end' is emitted and no handler of convertUrlToPdf runs
CvAborted ==
    /\ conv.req = "response"
    /\ conv' = [conv EXCEPT !.req = "aborted", !.last = "aborted"]
    /\ UNCHANGED <<schedVars, dlVars, parseVars, mailVars, driveVars, jobVars, concVars>>

----------------------------------------------------------------------------
(* processUrls (pdfService.js 125-211) *)

batchSize == 5

outputDir == <<"o", "u", "t">>

\* path.join(outputDir, fileName)
PathJoin(dir, name) == dir \o <<"/">> \o name

\* the k-th work item of a run; items come from parseUrls, which always sets
\* url and fileName
WorkItem(k) == [url |-> <<"u">> \o PadStart3(k), label |-> <<>>, fileName |-> <<>>]

\* const index = i + idx + 1; item.fileName || `PDF_...`
FileNameOf(us, index) ==
    IF us[index].fileName # <<>> THEN us[index].fileName ELSE DefaultFileName(index)

\* mutant: the slice starts one item early, so a batch repeats the last item
\* of the batch before it
BatchOf_Overlap(us, lo) == (IF lo = 0 THEN 1 ELSE lo) .. Min(lo + batchSize, Len(us))

\* urls.slice(i, i + batchSize), as the set of 1-based indexes
BatchOf(us, lo) == (lo + 1) .. Min(lo + batchSize, Len(us))

\* the outcomes of convertUrlToPdf that a run draws from: a rejection when the
\* API key is unset, else a success or a failure decoded from the response
SchedBodies ==
    {[kind |-> "object", FileUrl |-> "v", Error |-> Absent, error |-> Absent],
     [kind |-> "object", FileUrl |-> Absent, Error |-> Absent, error |-> Absent]}

\* the outcomes of downloadPdf that a run draws from: resolve, or reject with
\* new Error(`HTTP ${statusCode}`)
DlResolved == "resolved"

SchedDownloads == {DlResolved, "HTTP 404"}

\* mutant: the record carries its arrival position instead of the item's index
SuccessRecord_ByArrival(us, index) ==
    [index |-> Len(results.success) + Len(results.failed) + 1, url |-> us[index].url,
     fileName |-> FileNameOf(us, index),
     localPath |-> PathJoin(outputDir, FileNameOf(us, index)), label |-> us[index].label]

SuccessRecord(us, index) ==
    [index |-> index, url |-> us[index].url, fileName |-> FileNameOf(us, index),
     localPath |-> PathJoin(outputDir, FileNameOf(us, index)), label |-> us[index].label]

FailedRecord(us, index, error) ==
    [index |-> index, url |-> us[index].url, fileName |-> FileNameOf(us, index),
     error |-> error, label |-> us[index].label]

\* mutant: processed counts the batch that is about to start
BatchEvent_Ahead(us, lo) ==
    [type |-> "batch", current |-> (lo \div batchSize) + 1,
     total |-> Ceil(Len(us), batchSize), processed |-> Min(lo + batchSize, Len(us)),
     totalUrls |-> Len(us)]

BatchEvent(us, lo) ==
    [type |-> "batch", current |-> (lo \div batchSize) + 1,
     total |-> Ceil(Len(us), batchSize), processed |-> lo, totalUrls |-> Len(us)]

ItemEvent(type, index) == [type |-> type, index |-> index]

NoHist == [conv |-> "none", dl |-> "none"]

SchedIdle ==
    /\ urls = <<>>
    /\ results = [success |-> <<>>, failed |-> <<>>, total |-> 0]
    /\ i = 0
    /\ pc = "idle"
    /\ task = <<>>
    /\ hist = <<>>
    /\ events = <<>>
    /\ batches = <<>>
    /\ delays = 0

\* for (let i = 0; i < urls.length; ...): the loop test succeeds; the batch
\* event is emitted and batch.map starts every item of the batch, each
\* running up to its first await (the call of convertUrlToPdf)
StartBatch ==
    /\ pc = "loop" /\ i < Len(urls)
    /\ events' = Append(events, BatchEvent(urls, i))
    /\ task' = [k \in DOMAIN task |-> IF k \in BatchOf(urls, i) THEN "converting" ELSE task[k]]
    /\ batches' = Append(batches, Cardinality(BatchOf(urls, i)))
    /\ pc' = "join"
    /\ UNCHANGED <<urls, results, i, hist, delays, convVars, dlVars, parseVars, mailVars, driveVars, jobVars, concVars>>

\* the loop test fails: return results
Return ==
    /\ pc = "loop" /\ i >= Len(urls)
    /\ pc' = "done"
    /\ UNCHANGED <<urls, results, i, task, hist, events, batches, delays,
                   convVars, dlVars, parseVars, mailVars, driveVars, jobVars, concVars>>

\* mutant: the catch block swallows the error without recording the item
CatchBlock_NoRecord(k, message) ==
    /\ events' = Append(events, ItemEvent("failed", k))
    /\ task' = [task EXCEPT ![k] = "fulfilled"]
    /\ UNCHANGED results

\* the catch block of an item: record the failure, emit the event
CatchBlock(k, message) ==
    /\ results' = [results EXCEPT !.failed = Append(@, FailedRecord(urls, k, message))]
    /\ events' = Append(events, ItemEvent("failed", k))
    /\ task' = [task EXCEPT ![k] = "fulfilled"]

\* mutant: a failed conversion is thrown instead of recorded, and nothing
\* catches it
AfterConvert_Throw(k, result) ==
    IF result.success
    THEN /\ task' = [task EXCEPT ![k] = "downloading"]
         /\ hist' = [hist EXCEPT ![k].conv = "success"]
         /\ UNCHANGED <<results, events>>
    ELSE /\ task' = [task EXCEPT ![k] = "rejected"]
         /\ hist' = [hist EXCEPT ![k].conv = result.error]
         /\ UNCHANGED <<results, events>>

\* the continuation of `await convertUrlToPdf(...)` for a result
AfterConvert(k, result) ==
    IF result.success
    THEN /\ task' = [task EXCEPT ![k] = "downloading"]
         /\ hist' = [hist EXCEPT ![k].conv = "success"]
         /\ UNCHANGED <<results, events>>
    ELSE /\ results' = [results EXCEPT
                          !.failed = Append(@, FailedRecord(urls, k, result.error))]
         /\ events' = Append(events, ItemEvent("failed", k))
         /\ task' = [task EXCEPT ![k] = "fulfilled"]
         /\ hist' = [hist EXCEPT ![k].conv = result.error]

\* convertUrlToPdf of item k settles.  With the API key unset every call
\* rejects at once and the continuations run in the order of the calls.
ConvertSettles(k) ==
    /\ task[k] = "converting"
    /\ IF conv.apiKey = Undefined
       THEN /\ \A j \in BatchOf(urls, i) : j < k => task[j] # "converting"
            /\ CatchBlock(k, "Invalid value \"undefined\" for header \"Authorization\"")
            /\ hist' = [hist EXCEPT ![k].conv = "rejected"]
       ELSE \E b \in SchedBodies : AfterConvert(k, OnEnd(b, FileNameOf(urls, k)))
    /\ UNCHANGED <<urls, i, pc, batches, delays, convVars, dlVars, parseVars, mailVars, driveVars, jobVars, concVars>>

\* mutant: the item is pushed to success before the download is awaited
DownloadSettles_PushFirst(k) ==
    /\ task[k] = "downloading"
    /\ \E d \in SchedDownloads :
         /\ hist' = [hist EXCEPT ![k].dl = d]
         /\ events' = Append(events, ItemEvent(IF d = DlResolved THEN "success" ELSE "failed", k))
         /\ task' = [task EXCEPT ![k] = "fulfilled"]
         /\ results' = IF d = DlResolved
                       THEN [results EXCEPT !.success = Append(@, SuccessRecord(urls, k))]
                       ELSE [results EXCEPT !.success = Append(@, SuccessRecord(urls, k)),
                                            !.failed = Append(@, FailedRecord(urls, k, d))]
    /\ UNCHANGED <<urls, i, pc, batches, delays, convVars, dlVars, parseVars, mailVars, driveVars, jobVars, concVars>>

\* downloadPdf of item k settles: push to success and emit the event, or
\* the rejection is caught by the catch block
DownloadSettles(k) ==
    /\ task[k] = "downloading"
    /\ \E d \in SchedDownloads :
         /\ hist' = [hist EXCEPT ![k].dl = d]
         /\ IF d = DlResolved
            THEN /\ results' = [results EXCEPT
                                  !.success = Append(@, SuccessRecord(urls, k))]
                 /\ events' = Append(events, ItemEvent("success", k))
                 /\ task' = [task EXCEPT ![k] = "fulfilled"]
            ELSE CatchBlock(k, d)
    /\ UNCHANGED <<urls, i, pc, batches, delays, convVars, dlVars, parseVars, mailVars, driveVars, jobVars, concVars>>

\* mutant: the join returns as soon as one promise of the batch is fulfilled
Joined_Any(lo) == \E k \in BatchOf(urls, lo) : task[k] = "fulfilled"

\* Promise.all(batchPromises) is fulfilled once every promise of the batch is
Joined(lo) == \A k \in BatchOf(urls, lo) : task[k] = "fulfilled"

\* mutant: off by one, a delay also follows a final batch that is full
NeedsDelay_OffByOne(lo, n) == lo + batchSize <= n

\* if (i + batchSize < urls.length)
NeedsDelay(lo, n) == lo + batchSize < n

\* `await Promise.all(batchPromises)` returns (or throws when a promise of the
\* batch is rejected); then the pacing delay starts or the loop continues
BatchJoin ==
    /\ pc = "join"
    /\ IF \E k \in BatchOf(urls, i) : task[k] = "rejected" THEN TRUE ELSE Joined(i)
    /\ IF \E k \in BatchOf(urls, i) : task[k] = "rejected"
       THEN pc' = "rejected" /\ UNCHANGED <<i, delays>>
       ELSE IF NeedsDelay(i, Len(urls))
       THEN pc' = "delay" /\ delays' = delays + 1 /\ UNCHANGED i
       ELSE pc' = "loop" /\ i' = i + batchSize /\ UNCHANGED delays
    /\ UNCHANGED <<urls, results, task, hist, events, batches, convVars, dlVars, parseVars, mailVars, driveVars, jobVars, concVars>>

\* setTimeout(resolve, delayBetweenBatches) fires; i += batchSize
DelayElapsed ==
    /\ pc = "delay"
    /\ pc' = "loop"
    /\ i' = i + batchSize
    /\ UNCHANGED <<urls, results, task, hist, events, batches, delays,
                   convVars, dlVars, parseVars, mailVars, driveVars, jobVars, concVars>>

----------------------------------------------------------------------------
(* downloadPdf (pdfService.js 75-120) *)

\* status codes of the responses to the download request and to the
\* redirected request
DlStatuses == {200, 204, 301, 302, 404}

IsRedirect(status) == status \in {301, 302}

\* fs.unlink(localPath, () => {}): the removal is queued, not awaited
IssueUnlink(c) == [c EXCEPT !.unlinks = @ + 1]

\* `HTTP ${response.statusCode}`
HttpError(status) == "HTTP " \o ToString(status)

DlIdle ==
    [urlValid |-> TRUE, stream |-> "none", exists |-> FALSE, written |-> 0,
     req1 |-> "none", status1 |-> 0, req2 |-> "none", status2 |-> 0,
     hangup |-> FALSE, unlinks |-> 0,
     promise |-> "pending", value |-> Null, resolveCalls |-> 0,
     observed |-> FALSE, seenFile |-> FALSE]

\* The promise executor: fs.createWriteStream(localPath) starts opening the
\* file, then protocol.get(pdfUrl, ...) sends the request, or throws on a
\* string that is not a URL of that protocol.
DlCall ==
    /\ dl.stream = "none"
    /\ dl' = IF dl.urlValid
             THEN [dl EXCEPT !.stream = "opening", !.req1 = "sent"]
             ELSE ExecutorThrow([dl EXCEPT !.stream = "opening"], "Invalid URL")
    /\ UNCHANGED <<schedVars, convVars, parseVars, mailVars, driveVars, jobVars, concVars>>

\* the write stream's open completes: the file is created (or truncated)
DlOpen ==
    /\ dl.stream = "opening"
    /\ dl' = [dl EXCEPT !.stream = "open", !.exists = TRUE, !.written = 0]
    /\ UNCHANGED <<schedVars, convVars, parseVars, mailVars, driveVars, jobVars, concVars>>

\* the callback of protocol.get: the three branches on response.statusCode.
\* In the redirect branch a location that is not an absolute URL makes
\* redirectProtocol.get throw inside the callback (an uncaught exception).
DlResponse1 ==
    /\ dl.req1 = "sent"
    /\ \E st \in DlStatuses, locationValid \in BOOLEAN :
         dl' = IF IsRedirect(st)
               THEN IF locationValid
                    THEN [dl EXCEPT !.req1 = "redirected", !.status1 = st, !.req2 = "sent"]
                    ELSE [dl EXCEPT !.req1 = "crashed", !.status1 = st]
               ELSE IF st = 200
               THEN [dl EXCEPT !.req1 = "streaming", !.status1 = st]
               ELSE Reject(IssueUnlink([dl EXCEPT !.req1 = "refused", !.status1 = st]),
                           HttpError(st))
    /\ UNCHANGED <<schedVars, convVars, parseVars, mailVars, driveVars, jobVars, concVars>>

\* response.pipe(file): a chunk of the body is written to the open file
DlData1 ==
    /\ dl.req1 = "streaming" /\ dl.stream = "open" /\ dl.written < MaxChunks
    /\ dl' = [dl EXCEPT !.written = @ + 1]
    /\ UNCHANGED <<schedVars, convVars, parseVars, mailVars, driveVars, jobVars, concVars>>

\* the response ends, the pipe ends the file: file.on('finish', ...)
DlFinish1 ==
    /\ dl.req1 = "streaming" /\ dl.stream = "open"
    /\ dl' = Resolve([dl EXCEPT !.req1 = "ended", !.stream = "finished"], "localPath")
    /\ UNCHANGED <<schedVars, convVars, parseVars, mailVars, driveVars, jobVars, concVars>>

\* request.on('error', ...): a network error before any response
DlError1 ==
    /\ dl.req1 = "sent"
    /\ \E e \in NetErrors :
         dl' = Reject(IssueUnlink([dl EXCEPT !.req1 = "failed"]), e)
    /\ UNCHANGED <<schedVars, convVars, parseVars, mailVars, driveVars, jobVars, concVars>>

\* request.setTimeout(120000, ...): the socket of the first request has been
\* idle for 120s.  It can be idle while the request waits for a response,
\* while a body is streaming, and for as long as a response is left
\* unconsumed (the redirect branch and the bad-status branch never read it).
DlTimeout ==
    /\ dl.req1 \in {"sent", "streaming", "redirected", "refused"}
    /\ dl' = Reject(IssueUnlink([dl EXCEPT !.req1 = "destroyed",
                                           !.hangup = (dl.req1 = "sent")]),
                    "Download timeout")
    /\ UNCHANGED <<schedVars, convVars, parseVars, mailVars, driveVars, jobVars, concVars>>

\* the 'error' event of the destroyed request reaches request.on('error', ...)
DlHangup ==
    /\ dl.hangup
    /\ dl' = Reject(IssueUnlink([dl EXCEPT !.hangup = FALSE]), "socket hang up")
    /\ UNCHANGED <<schedVars, convVars, parseVars, mailVars, driveVars, jobVars, concVars>>

\* the connection closes in the middle of the body: nothing listens
DlAborted1 ==
    /\ dl.req1 = "streaming"
    /\ dl' = [dl EXCEPT !.req1 = "aborted"]
    /\ UNCHANGED <<schedVars, convVars, parseVars, mailVars, driveVars, jobVars, concVars>>

\* the callback of redirectProtocol.get: the response is piped to the file
\* whatever its status
DlResponse2 ==
    /\ dl.req2 = "sent"
    /\ \E st \in DlStatuses :
         dl' = [dl EXCEPT !.req2 = "streaming", !.status2 = st]
    /\ UNCHANGED <<schedVars, convVars, parseVars, mailVars, driveVars, jobVars, concVars>>

DlData2 ==
    /\ dl.req2 = "streaming" /\ dl.stream = "open" /\ dl.written < MaxChunks
    /\ dl' = [dl EXCEPT !.written = @ + 1]
    /\ UNCHANGED <<schedVars, convVars, parseVars, mailVars, driveVars, jobVars, concVars>>

DlFinish2 ==
    /\ dl.req2 = "streaming" /\ dl.stream = "open"
    /\ dl' = Resolve([dl EXCEPT !.req2 = "ended", !.stream = "finished"], "localPath")
    /\ UNCHANGED <<schedVars, convVars, parseVars, mailVars, driveVars, jobVars, concVars>>

\* .on('error', ...) of the redirected request
DlError2 ==
    /\ dl.req2 = "sent"
    /\ \E e \in NetErrors :
         dl' = Reject(IssueUnlink([dl EXCEPT !.req2 = "failed"]), e)
    /\ UNCHANGED <<schedVars, convVars, parseVars, mailVars, driveVars, jobVars, concVars>>

DlAborted2 ==
    /\ dl.req2 = "streaming"
    /\ dl' = [dl EXCEPT !.req2 = "aborted"]
    /\ UNCHANGED <<schedVars, convVars, parseVars, mailVars, driveVars, jobVars, concVars>>

\* a queued unlink is executed: the directory entry goes away (ENOENT is
\* ignored by the empty callback); an open stream keeps writing to the
\* unlinked file
DlUnlink ==
    /\ dl.unlinks > 0
    /\ dl' = [dl EXCEPT !.unlinks = @ - 1, !.exists = FALSE]
    /\ UNCHANGED <<schedVars, convVars, parseVars, mailVars, driveVars, jobVars, concVars>>

\* the caller's `await downloadPdf(...)` continues (processUrls 161-163 or
\* its catch block) and sees the staging directory as it is then
DlObserve ==
    /\ dl.promise # "pending" /\ ~dl.observed
    /\ dl' = [dl EXCEPT !.observed = TRUE, !.seenFile = dl.exists]
    /\ UNCHANGED <<schedVars, convVars, parseVars, mailVars, driveVars, jobVars, concVars>>

----------------------------------------------------------------------------
(* parseUrls (pdfService.js 216-258) *)

MaxPieces == 5      \* an input text is made of at most MaxPieces pieces

HTTP == <<"h", "t", "t", "p", ":", "/", "/">>

HTTPS == <<"h", "t", "t", "p", "s", ":", "/", "/">>

\* the pieces input texts are made of
Pieces == {HTTP, HTTPS, <<"x">>, <<" ">>, <<",">>, <<"\n">>}

RECURSIVE Flatten(_)
Flatten(ss) == IF ss = <<>> THEN <<>> ELSE Head(ss) \o Flatten(Tail(ss))

Inputs == {Flatten(ps) : ps \in UNION {[1 .. m -> Pieces] : m \in 0 .. MaxPieces}}

\* the characters that the class [\r\n] matches
IsNewline(c) == c \in {"\n", "\r"}

\* the characters that String.prototype.trim removes
IsSpace(c) == c \in {" ", "\t", "\n", "\r"}

\* input.split(/[\r\n]+/): a run of line breaks splits once; a leading or
\* trailing run leaves an empty first or last element
RECURSIVE SplitRuns(_, _, _)
SplitRuns(s, cur, inRun) ==
    IF s = <<>> THEN <<cur>>
    ELSE IF IsNewline(Head(s))
    THEN IF inRun THEN SplitRuns(Tail(s), cur, TRUE)
         ELSE <<cur>> \o SplitRuns(Tail(s), <<>>, TRUE)
    ELSE SplitRuns(Tail(s), Append(cur, Head(s)), FALSE)

SplitLines(s) == SplitRuns(s, <<>>, FALSE)

\* line.split(','): every comma splits
RECURSIVE SplitComma(_, _)
SplitComma(s, cur) ==
    IF s = <<>> THEN <<cur>>
    ELSE IF Head(s) = "," THEN <<cur>> \o SplitComma(Tail(s), <<>>)
    ELSE SplitComma(Tail(s), Append(cur, Head(s)))

RECURSIVE TrimStart(_)
TrimStart(s) == IF s # <<>> /\ IsSpace(Head(s)) THEN TrimStart(Tail(s)) ELSE s

RECURSIVE TrimEnd(_)
TrimEnd(s) ==
    IF s # <<>> /\ IsSpace(s[Len(s)]) THEN TrimEnd(SubSeq(s, 1, Len(s) - 1)) ELSE s

\* String.prototype.trim
Trim(s) == TrimEnd(TrimStart(s))

\* s.startsWith(prefix)
StartsWith(s, prefix) == Len(s) >= Len(prefix) /\ SubSeq(s, 1, Len(prefix)) = prefix

\* parts[n] || dflt  (n is 0-based, as in the code)
PartOr(parts, n, dflt) ==
    IF n + 1 <= Len(parts) /\ parts[n + 1] # <<>> THEN parts[n + 1] ELSE dflt

\* mutant: the fields are not trimmed after the split
TextParts_NoTrim(line) == SplitComma(line, <<>>)

\* line.split(',').map(p => p.trim())
TextParts(line) ==
    LET raw == SplitComma(line, <<>>) IN [x \in DOMAIN raw |-> Trim(raw[x])]

\* if (url && (url.startsWith('http://') || url.startsWith('https://')))
IsAccepted(url) == url # <<>> /\ (StartsWith(url, HTTP) \/ StartsWith(url, HTTPS))

\* the body of lines.forEach((line, idx) => ...) for an accepted line; idx is
\* 0-based
TextItem(line, idx) ==
    LET parts == TextParts(line)
    IN  [url |-> parts[1], label |-> PartOr(parts, 1, <<>>),
         fileName |-> PartOr(parts, 2, DefaultFileName(idx + 1))]

\* the text branch of parseUrls
ParseText(text) ==
    LET lines == SelectSeq(SplitLines(text), LAMBDA line : Trim(line) # <<>>)
        RECURSIVE Each(_)
        Each(idx) ==
            IF idx >= Len(lines) THEN <<>>
            ELSE (IF IsAccepted(TextParts(lines[idx + 1])[1])
                  THEN <<TextItem(lines[idx + 1], idx)>> ELSE <<>>) \o Each(idx + 1)
    IN  Each(0)

ParseIdle ==
    /\ input = <<>>
    /\ parsed = [status |-> "none", urls |-> <<>>]

\* parseUrls(input) with the default format 'text'
ParseCall ==
    /\ parsed.status = "none"
    /\ parsed' = [status |-> "returned", urls |-> ParseText(input)]
    /\ UNCHANGED <<input, schedVars, convVars, dlVars, mailVars, driveVars, jobVars, concVars>>

----------------------------------------------------------------------------
(* parseUrls, format 'json' (pdfService.js 219-237) *)

\* Largest number of elements of a decoded array
MaxElems == 2

\* The input of the json format is a sequence of JSON tokens: the six
\* punctuators, string and number tokens with their text, and the literals.
Tok(t, v) == [t |-> t, v |-> v]

\* A JavaScript value: k is its kind, s the text of a string or number,
\* items the elements of an array or the member values of an object, and
\* keys the member names of an object.
JsVal(k, s, items, keys) == [k |-> k, s |-> s, items |-> items, keys |-> keys]
JStr(s) == JsVal("str", s, <<>>, <<>>)
JUndefined == JsVal("undefined", <<>>, <<>>, <<>>)
JArr(items) == JsVal("arr", <<>>, items, <<>>)
JObj(keys, items) == JsVal("obj", <<>>, items, keys)

RECURSIVE Encode(_)
RECURSIVE EncodeItems(_)
RECURSIVE EncodeMembers(_, _)

\* the tokens of a document's JSON text
Encode(v) ==
    CASE v.k = "arr" -> <<Tok("[", <<>>)>> \o EncodeItems(v.items) \o <<Tok("]", <<>>)>>
      [] v.k = "obj" -> <<Tok("{", <<>>)>> \o EncodeMembers(v.keys, v.items) \o <<Tok("}", <<>>)>>
      [] OTHER -> <<Tok(v.k, v.s)>>

EncodeItems(items) ==
    IF items = <<>> THEN <<>>
    ELSE Encode(Head(items))
         \o (IF Len(items) > 1 THEN <<Tok(",", <<>>)>> ELSE <<>>)
         \o EncodeItems(Tail(items))

EncodeMembers(keys, items) ==
    IF keys = <<>> THEN <<>>
    ELSE <<Tok("str", Head(keys)), Tok(":", <<>>)>> \o Encode(Head(items))
         \o (IF Len(keys) > 1 THEN <<Tok(",", <<>>)>> ELSE <<>>)
         \o EncodeMembers(Tail(keys), Tail(items))

NoParse == [ok |-> FALSE, val |-> JUndefined, rest |-> <<>>]
Parsed(val, rest) == [ok |-> TRUE, val |-> val, rest |-> rest]

RECURSIVE ParseValue(_)
RECURSIVE ParseItems(_, _)
RECURSIVE ParseMembers(_, _, _)

\* JSON grammar: value ::= literal | '[' [value {',' value}] ']'
\*                       | '{' [string ':' value {',' string ':' value}] '}'
ParseValue(ts) ==
    IF ts = <<>> THEN NoParse
    ELSE LET t == Head(ts) IN
         CASE t.t \in {"str", "num", "true", "false", "null"} ->
                  Parsed(JsVal(t.t, t.v, <<>>, <<>>), Tail(ts))
           [] t.t = "[" ->
                  IF Len(ts) > 1 /\ ts[2].t = "]"
                  THEN Parsed(JArr(<<>>), SubSeq(ts, 3, Len(ts)))
                  ELSE ParseItems(Tail(ts), <<>>)
           [] t.t = "{" ->
                  IF Len(ts) > 1 /\ ts[2].t = "}"
                  THEN Parsed(JObj(<<>>, <<>>), SubSeq(ts, 3, Len(ts)))
                  ELSE ParseMembers(Tail(ts), <<>>, <<>>)
           [] OTHER -> NoParse

ParseItems(ts, acc) ==
    LET r == ParseValue(ts) IN
    IF ~r.ok \/ r.rest = <<>> THEN NoParse
    ELSE CASE Head(r.rest).t = "," -> ParseItems(Tail(r.rest), Append(acc, r.val))
           [] Head(r.rest).t = "]" -> Parsed(JArr(Append(acc, r.val)), Tail(r.rest))
           [] OTHER -> NoParse

ParseMembers(ts, keys, vals) ==
    IF Len(ts) < 3 \/ ts[1].t # "str" \/ ts[2].t # ":" THEN NoParse
    ELSE LET r == ParseValue(SubSeq(ts, 3, Len(ts))) IN
         IF ~r.ok \/ r.rest = <<>> THEN NoParse
         ELSE CASE Head(r.rest).t = "," ->
                       ParseMembers(Tail(r.rest), Append(keys, ts[1].v), Append(vals, r.val))
                [] Head(r.rest).t = "}" ->
                       Parsed(JObj(Append(keys, ts[1].v), Append(vals, r.val)), Tail(r.rest))
                [] OTHER -> NoParse

\* JSON.parse(input): the whole text must be one value
JSONParse(ts) ==
    LET r == ParseValue(ts) IN
    IF r.ok /\ r.rest = <<>> THEN r ELSE NoParse

\* property names read by parseUrls
Key ==
    [url |-> <<"u", "r", "l">>,
     fileName |-> <<"f", "i", "l", "e", "N", "a", "m", "e">>,
     name |-> <<"n", "a", "m", "e">>,
     label |-> <<"l", "a", "b", "e", "l">>,
     description |-> <<"d", "e", "s", "c", "r", "i", "p", "t", "i", "o", "n">>]

\* item.key on a value that is not null: the member's value (the last one of
\* that name, as JSON.parse keeps it), undefined when there is none
Get(v, key) ==
    LET hits == {n \in DOMAIN v.keys : v.keys[n] = key} IN
    IF v.k # "obj" \/ hits = {} THEN JUndefined
    ELSE v.items[CHOOSE n \in hits : \A m \in hits : m <= n]

\* ToBoolean
JsTruthy(v) ==
    CASE v.k \in {"undefined", "null", "false"} -> FALSE
      [] v.k = "str" -> v.s # <<>>
      [] v.k = "num" -> v.s # <<"0">>
      [] OTHER -> TRUE

\* a || b
JsOr(a, b) == IF JsTruthy(a) THEN a ELSE b

\* the body of data.forEach for the element at 1-based position n
\* (lines 224-234): the items it pushes
JsonItem(item, n) ==
    IF item.k = "str"
    THEN <<[url |-> item, fileName |-> JStr(DefaultFileName(n)), label |-> JUndefined]>>
    ELSE IF JsTruthy(Get(item, Key.url))
    THEN <<[url |-> Get(item, Key.url),
            fileName |-> JsOr(Get(item, Key.fileName),
                              JsOr(Get(item, Key.name), JStr(DefaultFileName(n)))),
            label |-> JsOr(Get(item, Key.label),
                           JsOr(Get(item, Key.description), JStr(<<>>)))]>>
    ELSE <<>>

RECURSIVE JsonItems(_, _)
JsonItems(items, n) ==
    IF n > Len(items) THEN <<>>
    ELSE JsonItem(items[n], n) \o JsonItems(items, n + 1)

\* parseUrls(input, 'json'): what the call returns or throws
ParseJson(ts) ==
    LET r == JSONParse(ts) IN
    IF ~r.ok THEN [status |-> "thrown", urls |-> <<>>]
    ELSE IF r.val.k # "arr" THEN [status |-> "returned", urls |-> <<>>]
    \* item.url on null raises a TypeError (line 228), caught at line 235
    ELSE IF \E n \in DOMAIN r.val.items : r.val.items[n].k = "null"
    THEN [status |-> "thrown", urls |-> <<>>]
    ELSE [status |-> "returned", urls |-> JsonItems(r.val.items, 1)]

ParseJsonCall ==
    /\ parsed.status = "none"
    /\ parsed' = ParseJson(input)
    /\ UNCHANGED <<input, schedVars, convVars, dlVars, mailVars, driveVars, jobVars, concVars>>

\* Documents: arrays of up to max elements, and values that are not arrays.
\* The elements are strings, the number 5, true, false, null and objects
\* with and without the properties parseUrls reads.
Docs(max) ==
    LET Elems ==
        {JStr(HTTPS), JStr(<<>>), JsVal("num", <<"5">>, <<>>, <<>>),
         JsVal("true", <<>>, <<>>, <<>>), JsVal("false", <<>>, <<>>, <<>>),
         JsVal("null", <<>>, <<>>, <<>>),
         JObj(<<>>, <<>>),
         JObj(<<Key.url>>, <<JStr(HTTPS)>>),
         JObj(<<Key.url>>, <<JStr(<<>>)>>),
         JObj(<<Key.fileName>>, <<JStr(<<"f">>)>>),
         JObj(<<Key.url, Key.fileName>>, <<JStr(HTTPS), JStr(<<"f">>)>>),
         JObj(<<Key.url, Key.name>>, <<JStr(HTTPS), JStr(<<"f">>)>>),
         JObj(<<Key.url, Key.label>>, <<JStr(HTTPS), JStr(<<"f">>)>>),
         JObj(<<Key.url, Key.description>>, <<JStr(HTTPS), JStr(<<"f">>)>>)}
    IN  Elems \cup {JArr(es) : es \in UNION {[1 .. m -> Elems] : m \in 0 .. max}}

\* Inputs of the json format: the text of every document, and every such
\* text with one token missing
JsonInputs(max) ==
    LET texts == {Encode(d) : d \in Docs(max)} IN
    texts \cup UNION {{SubSeq(ts, 1, n - 1) \o SubSeq(ts, n + 1, Len(ts)) : n \in DOMAIN ts} :
                      ts \in texts}

----------------------------------------------------------------------------
(* sendPdfsViaEmail (emailService.js 243-298) with createZipFromPdfs
   (87-116) and sendEmailWithZip (121-160) *)

\* const maxSize = 25 * 1024 * 1024
maxSize == 25 * 1024 * 1024

\* if (zip.size > maxSize)
TooLarge_Geq(size) == size >= maxSize
TooLarge(size) == size > maxSize

\* the objects sendPdfsViaEmail returns
MailSent == [success |-> TRUE, error |-> "none"]
MailFailure(message) == [success |-> FALSE, error |-> message]

\* pc: where the call stands; open: the state of the write stream's file
\* descriptor; exists: whether zipPath names a file; zip: the promise of
\* createZipFromPdfs; transporter: the module's cached mail client.
MailIdle ==
    [pc |-> "idle", zipSize |-> 0, htmlThrows |-> FALSE, transporter |-> Null,
     open |-> "none", exists |-> FALSE, zip |-> "none", sendCalls |-> 0,
     unlinks |-> 0, result |-> MailFailure("pending")]

\* sendPdfsViaEmail is called: createZipFromPdfs creates the write stream,
\* whose file is opened asynchronously, and starts the archive
MailCall ==
    /\ mail.pc = "idle"
    /\ mail' = [mail EXCEPT !.pc = "zip", !.open = "pending", !.zip = "pending"]
    /\ UNCHANGED <<schedVars, convVars, dlVars, parseVars, driveVars, jobVars, concVars>>

\* the file system completes the open of zipPath
ZipOpen ==
    /\ mail.open = "pending"
    /\ mail' = [mail EXCEPT !.open = "open", !.exists = TRUE]
    /\ UNCHANGED <<schedVars, convVars, dlVars, parseVars, driveVars, jobVars, concVars>>

\* the open fails: the write stream emits 'error', which has no listener
ZipOpenFails ==
    /\ mail.open = "pending"
    /\ mail.pc = "zip"
    /\ mail' = [mail EXCEPT !.open = "failed", !.pc = "crashed"]
    /\ UNCHANGED <<schedVars, convVars, dlVars, parseVars, driveVars, jobVars, concVars>>

\* archive.on('error', reject)
ArchiveError ==
    /\ mail.pc = "zip"
    /\ mail.zip = "pending"
    /\ mail' = [mail EXCEPT !.zip = "rejected"]
    /\ UNCHANGED <<schedVars, convVars, dlVars, parseVars, driveVars, jobVars, concVars>>

\* output.on('close'): the archive is written and the file closed
ZipClose ==
    /\ mail.pc = "zip"
    /\ mail.zip = "pending"
    /\ mail.open = "open"
    /\ mail' = [mail EXCEPT !.zip = "resolved", !.open = "closed"]
    /\ UNCHANGED <<schedVars, convVars, dlVars, parseVars, driveVars, jobVars, concVars>>

\* fs.unlinkSync(zipPath) followed by return result
UnlinkAndReturn(result) ==
    [mail EXCEPT !.exists = FALSE, !.unlinks = @ + 1, !.pc = "returned",
                 !.result = result]

\* the catch block of sendPdfsViaEmail (lines 289-297)
MailCatch(message) ==
    IF mail.exists THEN UnlinkAndReturn(MailFailure(message))
    ELSE [mail EXCEPT !.pc = "returned", !.result = MailFailure(message)]

\* the code after `await createZipFromPdfs`, up to the call of
\* sendEmailWithZip (lines 254-275)
AfterZip ==
    /\ mail.pc = "zip"
    /\ mail.zip \in {"resolved", "rejected"}
    /\ mail' = IF mail.zip = "rejected" THEN MailCatch("archive error")
               ELSE IF TooLarge(mail.zipSize)
               THEN UnlinkAndReturn(MailFailure("ZIP file too large"))
               ELSE IF mail.htmlThrows THEN MailCatch("html error")
               ELSE [mail EXCEPT !.pc = "init"]
    /\ UNCHANGED <<schedVars, convVars, dlVars, parseVars, driveVars, jobVars, concVars>>

\* `await initializeEmail()` in sendEmailWithZip: the cached transporter or
\* a new one; a failure is outside sendEmailWithZip's try and reaches the
\* catch block of sendPdfsViaEmail
InitializeEmail ==
    /\ mail.pc = "init"
    /\ \/ mail' = [mail EXCEPT !.pc = "send", !.transporter = "transporter"]
       \/ /\ mail.transporter = Null
          /\ mail' = MailCatch("init error")
    /\ UNCHANGED <<schedVars, convVars, dlVars, parseVars, driveVars, jobVars, concVars>>

\* `await mail.sendMail(mailOptions)` settles; fs.unlinkSync(zipPath);
\* return emailResult
SendMail ==
    /\ mail.pc = "send"
    /\ \E r \in {MailSent, MailFailure("send error")} :
         mail' = [UnlinkAndReturn(r) EXCEPT !.sendCalls = @ + 1]
    /\ UNCHANGED <<schedVars, convVars, dlVars, parseVars, driveVars, jobVars, concVars>>

----------------------------------------------------------------------------
(* uploadPdfsToSharedFolder (googleDriveService.js 143-190) *)

\* Largest number of files handed to uploadPdfsToSharedFolder
MaxFiles == 10

\* the object returned on the outer catch (lines 184-189)
DriveFailure(message) ==
    [success |-> FALSE, shareLink |-> "none", uploadedFiles |-> 0, failedFiles |-> 0,
     error |-> message]

\* the object returned after sharing (lines 176-184), with
\* uploadResults.filter(r => r.success).length and its complement
DriveSuccess(link, rs) ==
    [success |-> TRUE, shareLink |-> link,
     uploadedFiles |-> Cardinality({n \in DOMAIN rs : rs[n].success}),
     failedFiles |-> Cardinality({n \in DOMAIN rs : ~rs[n].success}),
     error |-> "none"]

\* files: the length of pdfFiles; k: the file the loop is at; rejected: the
\* number of uploadFile calls that rejected (history); calls: the calls
\* made of uploadFile and of shareWithEmail (history)
DriveIdle ==
    [pc |-> "idle", files |-> 0, k |-> 0, uploadResults |-> <<>>, rejected |-> 0,
     uploadCalls |-> 0, shareCalls |-> 0, result |-> DriveFailure("pending")]

\* uploadPdfsToSharedFolder is called and awaits createFolder
DriveCall ==
    /\ drive.pc = "idle"
    /\ drive' = [drive EXCEPT !.pc = "folder"]
    /\ UNCHANGED <<schedVars, convVars, dlVars, parseVars, mailVars, jobVars, concVars>>

\* mutant: the loop stops one file early
LoopAt_StopEarly(d, k) ==
    IF k < d.files
    THEN [d EXCEPT !.pc = "upload", !.k = k, !.uploadCalls = @ + 1]
    ELSE [d EXCEPT !.pc = "share", !.k = k, !.shareCalls = @ + 1]

\* the for loop reaches file k, or the share step after the last file
LoopAt(d, k) ==
    IF k <= d.files
    THEN [d EXCEPT !.pc = "upload", !.k = k, !.uploadCalls = @ + 1]
    ELSE [d EXCEPT !.pc = "share", !.k = k, !.shareCalls = @ + 1]

\* createFolder settles: rejected (initializeDrive or files.create failed),
\* which the outer catch reports, or resolved
CreateFolderSettles ==
    /\ drive.pc = "folder"
    /\ \/ drive' = [drive EXCEPT !.pc = "returned",
                                 !.result = DriveFailure("folder error")]
       \/ drive' = LoopAt(drive, 1)
    /\ UNCHANGED <<schedVars, convVars, dlVars, parseVars, mailVars, jobVars, concVars>>

\* the inner catch (lines 161-168) records the failure; the loop goes on
UploadRejected_Abort(d) ==
    [d EXCEPT !.pc = "returned", !.rejected = @ + 1,
              !.result = DriveFailure("upload error")]
UploadRejected(d) ==
    LoopAt([d EXCEPT !.uploadResults = Append(@, [success |-> FALSE, file |-> d.k]),
                     !.rejected = @ + 1],
           d.k + 1)

\* `await uploadFile(...)` settles for file k: resolved (lines 153-160) or
\* rejected
UploadSettles ==
    /\ drive.pc = "upload"
    /\ \/ drive' = LoopAt([drive EXCEPT !.uploadResults =
                                           Append(@, [success |-> TRUE, file |-> drive.k])],
                          drive.k + 1)
       \/ drive' = UploadRejected(drive)
    /\ UNCHANGED <<schedVars, convVars, dlVars, parseVars, mailVars, jobVars, concVars>>

\* mutant: a failure of the share step is not caught
ShareSettles_Uncaught ==
    /\ drive.pc = "share"
    /\ \/ drive' = [drive EXCEPT !.pc = "returned",
                                 !.result = DriveSuccess("link", drive.uploadResults)]
       \/ drive' = [drive EXCEPT !.pc = "rejected"]
    /\ UNCHANGED <<schedVars, convVars, dlVars, parseVars, mailVars, jobVars, concVars>>

\* `await shareWithEmail(...)` settles
ShareSettles ==
    /\ drive.pc = "share"
    /\ \/ drive' = [drive EXCEPT !.pc = "returned",
                                 !.result = DriveSuccess("link", drive.uploadResults)]
       \/ drive' = [drive EXCEPT !.pc = "returned",
                                 !.result = DriveFailure("share error")]
    /\ UNCHANGED <<schedVars, convVars, dlVars, parseVars, mailVars, jobVars, concVars>>

----------------------------------------------------------------------------
(* Job registry and job task (routes/pdf.js, not part of the sources at
   hand): the job record and its lifecycle as specified, driven by the
   progress events of processUrls *)

\* Largest number of work items of a job
MaxJobItems == 6

\* progress is an integer 0..100; the values the model distinguishes
ProgressValues == {0, 50, 100}

Terminal == {"completed", "failed"}

\* no job created yet
JobIdle ==
    [status |-> "none", progress |-> 0, totalUrls |-> 0, successCount |-> 0,
     failedCount |-> 0, logs |-> 0, method |-> "none", deliveryResult |-> "none",
     error |-> "none", batch |-> 0]

\* appendLog
AppendLog(j) == [j EXCEPT !.logs = @ + 1]

\* the values setProgress may be given: progress does not decrease
NextProgress_Any(j) == ProgressValues
NextProgress(j) == {p \in ProgressValues : p >= j.progress}

\* setCounts on an item event
Counted_Both(j, ok) == [j EXCEPT !.successCount = @ + 1, !.failedCount = @ + 1]
Counted(j, ok) ==
    IF ok THEN [j EXCEPT !.successCount = @ + 1] ELSE [j EXCEPT !.failedCount = @ + 1]

\* the number of items whose event has been delivered
Resolved(j) == j.successCount + j.failedCount

\* the scheduler has returned: every item of every batch has resolved
ProcessingDone_NoJoin(j) == TRUE
ProcessingDone(j) == Resolved(j) = j.totalUrls

\* the terminal update after the dispatcher's result
AfterDelivery_Retry(j, ok) ==
    IF ok THEN [AppendLog(j) EXCEPT !.status = "completed", !.deliveryResult = j.method]
    ELSE [AppendLog(j) EXCEPT !.status = "processing"]
AfterDelivery(j, ok) ==
    IF ok THEN [AppendLog(j) EXCEPT !.status = "completed", !.deliveryResult = j.method]
    ELSE [AppendLog(j) EXCEPT !.status = "failed", !.error = "delivery failed"]

\* a conversion request is accepted, with at least one item and a delivery
\* method: create() gives a record with status queued
JobCreate ==
    /\ job.status = "none"
    /\ \E n \in 1 .. MaxJobItems, m \in {"drive", "email"} :
         job' = [JobIdle EXCEPT !.status = "queued", !.totalUrls = n, !.method = m]
    /\ UNCHANGED <<lastRead, schedVars, convVars, dlVars, parseVars, mailVars, driveVars, concVars>>

\* the job's task starts the scheduler
JobStart ==
    /\ job.status = "queued"
    /\ job' = [AppendLog(job) EXCEPT !.status = "processing"]
    /\ UNCHANGED <<lastRead, schedVars, convVars, dlVars, parseVars, mailVars, driveVars, concVars>>

\* onProgress({type: 'batch', ...}): emitted before each batch, once the
\* batch before it has been joined (pdfService.js 136-148)
JobBatchEvent ==
    /\ job.status \notin {"none", "queued"}
    /\ Resolved(job) = job.batch * batchSize
    /\ Resolved(job) < job.totalUrls
    /\ \E p \in NextProgress(job) :
         job' = [AppendLog(job) EXCEPT !.batch = @ + 1, !.progress = p]
    /\ UNCHANGED <<lastRead, schedVars, convVars, dlVars, parseVars, mailVars, driveVars, concVars>>

\* onProgress({type: 'success' | 'failed', ...}): one per item of the
\* batch in flight, in any order (pdfService.js 150-199)
JobItemEvent ==
    /\ job.status \notin {"none", "queued"}
    /\ Resolved(job) < Min(job.batch * batchSize, job.totalUrls)
    /\ \E ok \in BOOLEAN, p \in NextProgress(job) :
         job' = [AppendLog(Counted(job, ok)) EXCEPT !.progress = p]
    /\ UNCHANGED <<lastRead, schedVars, convVars, dlVars, parseVars, mailVars, driveVars, concVars>>

\* the scheduler returned; the dispatcher is invoked
JobDeliver ==
    /\ job.status = "processing"
    /\ ProcessingDone(job)
    /\ job' = [AppendLog(job) EXCEPT !.status = IF job.method = "drive" THEN "uploading"
                                                  ELSE "sending"]
    /\ UNCHANGED <<lastRead, schedVars, convVars, dlVars, parseVars, mailVars, driveVars, concVars>>

\* the dispatcher's result is recorded
JobDelivered ==
    /\ job.status \in {"uploading", "sending"}
    /\ \E ok \in BOOLEAN, p \in NextProgress(job) :
         job' = [AfterDelivery(job, ok) EXCEPT !.progress = IF ok THEN p ELSE @]
    /\ UNCHANGED <<lastRead, schedVars, convVars, dlVars, parseVars, mailVars, driveVars, concVars>>

\* GET /api/pdf/status/:jobId returns the record
JobGet ==
    /\ job.status # "none"
    /\ lastRead' = job
    /\ UNCHANGED <<job, schedVars, convVars, dlVars, parseVars, mailVars, driveVars, concVars>>

----------------------------------------------------------------------------
(* Two concurrent runs of processUrls (pdfService.js 125-211).  Every
   variable of processUrls is local to the call, so a run is a record of its
   own; the items of the batch in flight are counted, not told apart. *)

\* a call of processUrls on n items, at its first loop test
NewRun(n) == [n |-> n, i |-> 0, pc |-> "loop", inflight |-> 0, batches |-> 0]

\* mutant: the whole rest of the list is started at once
RunStartBatch_NoSlice(r) ==
    /\ runs[r].pc = "loop" /\ runs[r].i < runs[r].n
    /\ runs' = [runs EXCEPT ![r].pc = "join", ![r].batches = @ + 1,
                            ![r].inflight = runs[r].n - runs[r].i]
    /\ UNCHANGED <<poll, clients, pair, posts, schedVars, convVars, dlVars, parseVars, mailVars,
                   driveVars, jobVars>>

\* run r starts the items of urls.slice(i, i + batchSize) (lines 136-150)
RunStartBatch(r) ==
    /\ runs[r].pc = "loop" /\ runs[r].i < runs[r].n
    /\ runs' = [runs EXCEPT ![r].pc = "join", ![r].batches = @ + 1,
                            ![r].inflight = Min(batchSize, runs[r].n - runs[r].i)]
    /\ UNCHANGED <<poll, clients, pair, posts, schedVars, convVars, dlVars, parseVars, mailVars,
                   driveVars, jobVars>>

\* an item of run r's batch is recorded as success or failed (lines 153-199)
RunItemSettles(r) ==
    /\ runs[r].inflight > 0
    /\ runs' = [runs EXCEPT ![r].inflight = @ - 1]
    /\ UNCHANGED <<poll, clients, pair, posts, schedVars, convVars, dlVars, parseVars, mailVars,
                   driveVars, jobVars>>

\* run r's `await Promise.all(batchPromises)` returns (lines 201-207)
RunBatchJoin(r) ==
    /\ runs[r].pc = "join" /\ runs[r].inflight = 0
    /\ runs' = IF NeedsDelay(runs[r].i, runs[r].n)
               THEN [runs EXCEPT ![r].pc = "delay"]
               ELSE [runs EXCEPT ![r].pc = "loop", ![r].i = @ + batchSize]
    /\ UNCHANGED <<poll, clients, pair, posts, schedVars, convVars, dlVars, parseVars, mailVars,
                   driveVars, jobVars>>

\* run r's pacing delay elapses (lines 205-207)
RunDelayElapsed(r) ==
    /\ runs[r].pc = "delay"
    /\ runs' = [runs EXCEPT ![r].pc = "loop", ![r].i = @ + batchSize]
    /\ UNCHANGED <<poll, clients, pair, posts, schedVars, convVars, dlVars, parseVars, mailVars,
                   driveVars, jobVars>>

\* run r's loop test fails: return results (line 210)
RunReturn(r) ==
    /\ runs[r].pc = "loop" /\ runs[r].i >= runs[r].n
    /\ runs' = [runs EXCEPT ![r].pc = "done"]
    /\ UNCHANGED <<poll, clients, pair, posts, schedVars, convVars, dlVars, parseVars, mailVars,
                   driveVars, jobVars>>

----------------------------------------------------------------------------
(* initializeDrive (googleDriveService.js 5-56) and initializeEmail
   (emailService.js 7-82), called by two concurrent callers.  Instances are
   numbered in the order of their construction; 0 stands for null. *)

\* let driveClient = null; let transporter = null; nobody has called yet.
\* oauth: credentials.json and token.json exist and hold OAuth credentials
NewClients(oauth) ==
    [driveClient |-> 0, driveBuilt |-> 0, transporter |-> 0, mailBuilt |-> 0,
     oauth |-> oauth,
     d |-> [c \in 1 .. 2 |-> [pc |-> "idle", got |-> 0]],
     m |-> [c \in 1 .. 2 |-> [pc |-> "idle", got |-> 0]]]

\* caller c calls initializeDrive, whose body has no await: the cached
\* client is returned, or a client is constructed and cached, or the call
\* throws (no credentials, no token, invalid format) before line 54
DriveInitCall(c) ==
    /\ clients.d[c].pc \in {"idle", "thrown"}
    /\ IF clients.driveClient # 0
       THEN clients' = [clients EXCEPT !.d[c] = [pc |-> "returned", got |-> clients.driveClient]]
       ELSE \/ clients' = [clients EXCEPT !.d[c] = [pc |-> "thrown", got |-> 0]]
            \/ clients' = [clients EXCEPT !.driveBuilt = @ + 1,
                                          !.driveClient = clients.driveBuilt + 1,
                                          !.d[c] = [pc |-> "returned",
                                                    got |-> clients.driveBuilt + 1]]
    /\ UNCHANGED <<poll, runs, pair, posts, schedVars, convVars, dlVars, parseVars, mailVars,
                   driveVars, jobVars>>

\* transporter = nodemailer.createTransport(...); return transporter
\* (lines 40-53 and 79-81), or createTransport throws
BuildTransporter(c) ==
    \/ clients' = [clients EXCEPT !.mailBuilt = @ + 1,
                                  !.transporter = clients.mailBuilt + 1,
                                  !.m[c] = [pc |-> "returned", got |-> clients.mailBuilt + 1]]
    \/ clients' = [clients EXCEPT !.m[c] = [pc |-> "thrown", got |-> 0]]

\* caller c calls initializeEmail: the cached transporter is returned; with
\* OAuth credentials the call suspends at `await oauth2Client.getAccessToken()`
\* (line 37); otherwise the SMTP transporter is constructed at once
EmailInitCall(c) ==
    /\ clients.m[c].pc \in {"idle", "thrown"}
    /\ IF clients.transporter # 0
       THEN clients' = [clients EXCEPT !.m[c] = [pc |-> "returned",
                                                 got |-> clients.transporter]]
       ELSE IF clients.oauth
       THEN clients' = [clients EXCEPT !.m[c].pc = "token"]
       ELSE BuildTransporter(c)
    /\ UNCHANGED <<poll, runs, pair, posts, schedVars, convVars, dlVars, parseVars, mailVars,
                   driveVars, jobVars>>

\* getAccessToken settles for caller c: resolved, the OAuth2 transporter is
\* constructed (line 40); rejected, the catch of line 55 falls through to
\* the SMTP transporter (line 79).  Neither path tests the cache again.
EmailTokenSettles(c) ==
    /\ clients.m[c].pc = "token"
    /\ BuildTransporter(c)
    /\ UNCHANGED <<poll, runs, pair, posts, schedVars, convVars, dlVars, parseVars, mailVars,
                   driveVars, jobVars>>

----------------------------------------------------------------------------
(* Two downloadPdf calls with the same localPath (pdfService.js 75-120,
   called from processUrls 159-161): two items with the same fileName in
   one batch, or in two jobs that share outputDir.  The path names at most
   one file at a time; each write stream keeps the file it opened. *)

\* one call: its write stream, the file the stream opened (fd), the first
\* and the redirected request, the queued unlinks and the promise
NewPair ==
    [exists |-> FALSE, ino |-> 0, made |-> 0,
     wrote |-> [f \in 1 .. 2 |-> {}],
     d |-> [c \in 1 .. 2 |->
              [stream |-> "none", fd |-> 0, req1 |-> "none", req2 |-> "none",
               piped |-> FALSE, unlinks |-> 0, promise |-> "pending"]]]

PairStep(p) ==
    /\ pair' = p
    /\ UNCHANGED <<poll, runs, clients, posts, schedVars, convVars, dlVars, parseVars, mailVars,
                   driveVars, jobVars>>

\* resolve / reject of call c: only the first settles the promise
PairSettle(p, c, outcome) ==
    IF p.d[c].promise = "pending" THEN [p EXCEPT !.d[c].promise = outcome] ELSE p

\* fs.unlink(localPath, () => {}); reject(err)
PairFail(p, c) == PairSettle([p EXCEPT !.d[c].unlinks = @ + 1], c, "rejected")

\* the executor of call c: createWriteStream starts opening, get sends
PairCall(c) ==
    /\ pair.d[c].stream = "none"
    /\ PairStep([pair EXCEPT !.d[c].stream = "opening", !.d[c].req1 = "sent"])

\* the open of c's stream completes (flags 'w'): a file already at the path
\* is truncated and shared, otherwise a new file is created there
PairOpen(c) ==
    /\ pair.d[c].stream = "opening"
    /\ PairStep(IF pair.exists
                THEN [pair EXCEPT !.d[c].stream = "open", !.d[c].fd = pair.ino,
                                  !.wrote[pair.ino] = {}]
                ELSE [pair EXCEPT !.d[c].stream = "open", !.d[c].fd = pair.made + 1,
                                  !.exists = TRUE, !.ino = pair.made + 1,
                                  !.made = pair.made + 1])

\* the callback of protocol.get for call c
PairResponse1(c) ==
    /\ pair.d[c].req1 = "sent"
    /\ \E st \in {200, 302, 404} :
         PairStep(IF IsRedirect(st)
                  THEN [pair EXCEPT !.d[c].req1 = "redirected", !.d[c].req2 = "sent"]
                  ELSE IF st = 200
                  THEN [pair EXCEPT !.d[c].req1 = "streaming"]
                  ELSE PairFail([pair EXCEPT !.d[c].req1 = "refused"], c))

\* the callback of redirectProtocol.get for call c
PairResponse2(c) ==
    /\ pair.d[c].req2 = "sent"
    /\ PairStep([pair EXCEPT !.d[c].req2 = "streaming"])

PairStreaming(c) == "streaming" \in {pair.d[c].req1, pair.d[c].req2}

\* a chunk of c's body is written to the file c's stream holds
PairData(c) ==
    /\ PairStreaming(c) /\ pair.d[c].stream = "open"
    /\ PairStep([pair EXCEPT !.d[c].piped = TRUE,
                             !.wrote[pair.d[c].fd] = @ \cup {c}])

\* file.on('finish', ...) of call c, after a non-empty body
PairFinish(c) ==
    /\ PairStreaming(c) /\ pair.d[c].stream = "open" /\ pair.d[c].piped
    /\ PairStep(PairSettle([pair EXCEPT !.d[c].stream = "finished",
                                        !.d[c].req1 = IF @ = "streaming" THEN "ended" ELSE @,
                                        !.d[c].req2 = IF @ = "streaming" THEN "ended" ELSE @],
                           c, "fulfilled"))

\* request.on('error', ...) of call c: a network error before a response,
\* or the 'error' event of a request destroyed by the timeout handler
PairError1(c) ==
    /\ pair.d[c].req1 \in {"sent", "hungup"}
    /\ PairStep(PairFail([pair EXCEPT !.d[c].req1 = "failed"], c))

\* .on('error', ...) of the redirected request of call c
PairError2(c) ==
    /\ pair.d[c].req2 = "sent"
    /\ PairStep(PairFail([pair EXCEPT !.d[c].req2 = "failed"], c))

\* request.setTimeout(120000, ...) of call c (see DlTimeout)
PairTimeout(c) ==
    /\ pair.d[c].req1 \in {"sent", "streaming", "redirected", "refused"}
    /\ PairStep(PairFail([pair EXCEPT !.d[c].req1 = IF @ = "sent" THEN "hungup"
                                                    ELSE "destroyed"], c))

\* a queued unlink of call c is executed: the path names no file any more
PairUnlink(c) ==
    /\ pair.d[c].unlinks > 0
    /\ PairStep([pair EXCEPT !.d[c].unlinks = @ - 1, !.exists = FALSE, !.ino = 0])

----------------------------------------------------------------------------
(* Two concurrent sendPdfsViaEmail calls whose folder names give the same
   zipPath (emailService.js 243-298, 87-116, 121-160).  exists: whether
   zipPath names a file; each call keeps the stream it opened. *)

NewPosts ==
    [exists |-> FALSE,
     p |-> [c \in 1 .. 2 |->
              [pc |-> "idle", open |-> "none", accepted |-> FALSE,
               success |-> FALSE]]]

PostStep(s) ==
    /\ posts' = s
    /\ UNCHANGED <<poll, runs, clients, pair, schedVars, convVars, dlVars, parseVars, mailVars,
                   driveVars, jobVars>>

\* the catch block (lines 289-297): zipPath is unlinked if it names a
\* file, and { success: false } is returned
PostCatch(s, c) ==
    [s EXCEPT !.exists = FALSE, !.p[c].pc = "returned", !.p[c].success = FALSE]

\* fs.unlinkSync(zipPath); return result -- unlinkSync throws ENOENT into
\* the catch block when zipPath names no file
PostUnlinkAndReturn(s, c, success) ==
    IF s.exists
    THEN [s EXCEPT !.exists = FALSE, !.p[c].pc = "returned", !.p[c].success = success]
    ELSE PostCatch(s, c)

\* call c starts: createZipFromPdfs creates the write stream on zipPath
PostCall(c) ==
    /\ posts.p[c].pc = "idle"
    /\ PostStep([posts EXCEPT !.p[c].pc = "zip", !.p[c].open = "pending"])

\* the open of c's stream completes: zipPath names a file
PostZipOpen(c) ==
    /\ posts.p[c].open = "pending"
    /\ PostStep([posts EXCEPT !.p[c].open = "open", !.exists = TRUE])

\* archive.on('error', reject) for call c, received by the catch block
PostArchiveError(c) ==
    /\ posts.p[c].pc = "zip"
    /\ PostStep(PostCatch(posts, c))

\* output.on('close') for call c, then lines 254-275: an archive over
\* maxSize is unlinked and refused, generateEmailHtml may throw, otherwise
\* sendEmailWithZip is called and awaits initializeEmail
PostZipClose(c) ==
    /\ posts.p[c].pc = "zip" /\ posts.p[c].open = "open"
    /\ \E size \in {maxSize, maxSize + 1}, htmlThrows \in BOOLEAN :
         LET s == [posts EXCEPT !.p[c].open = "closed"]
         IN  PostStep(IF TooLarge(size) THEN PostUnlinkAndReturn(s, c, FALSE)
                      ELSE IF htmlThrows THEN PostCatch(s, c)
                      ELSE [s EXCEPT !.p[c].pc = "init"])

\* `await initializeEmail()` settles for call c; a rejection reaches the
\* catch block of sendPdfsViaEmail
PostInitializeEmail(c) ==
    /\ posts.p[c].pc = "init"
    /\ \/ PostStep([posts EXCEPT !.p[c].pc = "send"])
       \/ PostStep(PostCatch(posts, c))

\* mail.sendMail reads the attachment at zipPath; when the path names no
\* file sendMail rejects, sendEmailWithZip returns { success: false } and
\* line 285 unlinks
PostAttach(c) ==
    /\ posts.p[c].pc = "send"
    /\ PostStep(IF posts.exists THEN [posts EXCEPT !.p[c].pc = "sending"]
                ELSE PostUnlinkAndReturn(posts, c, FALSE))

\* the transport accepts or refuses the message of call c; line 285
\* unlinks zipPath and line 287 returns emailResult
PostSendSettles(c) ==
    /\ posts.p[c].pc = "sending"
    /\ \E accepted \in BOOLEAN :
         PostStep(PostUnlinkAndReturn([posts EXCEPT !.p[c].accepted = accepted],
                                      c, accepted))

----------------------------------------------------------------------------
(* pollJobStatus of the browser client (public/app.js 176-204) with
   showSuccess and showError (236-284).  The submit handler has disabled
   the convert button and received the job id (147-166). *)

\* const maxAttempts = 300
maxAttempts == 300

\* what `await fetch(...)` and `await response.json()` give the poller: a
\* rejection (network error, or a body that is not JSON), the body of a
\* not-found answer (no status, no logs), or a job record, whose
\* deliveryResult is an object or null
PollResponses ==
    {[kind |-> "rejected", status |-> "none", logs |-> FALSE, delivery |-> FALSE],
     [kind |-> "not found", status |-> "none", logs |-> FALSE, delivery |-> FALSE]}
    \cup {[kind |-> "job", status |-> st, logs |-> TRUE, delivery |-> d] :
             st \in {"processing", "uploading", "sending", "completed", "failed"},
             d \in BOOLEAN}

\* attempts: the counter of pollJobStatus; requests: status requests
\* issued; button: convertBtn is enabled; writes: assignments to the
\* result panel, content: what it shows; last: the kind or status of the
\* last answer
NewPoll ==
    [pc |-> "idle", attempts |-> 0, requests |-> 0, button |-> FALSE,
     writes |-> 0, content |-> "none", last |-> "none"]

\* showError(message): the button is enabled and the panel shows the error
ShowError(p, message) ==
    [p EXCEPT !.pc = "done", !.button = TRUE, !.writes = @ + 1, !.content = message]

\* showSuccess(job): the button is enabled; reading job.deliveryResult.method
\* throws when deliveryResult is null, before the panel is written, and the
\* catch of poll shows the TypeError's message
ShowSuccess(p, r) ==
    IF r.delivery
    THEN [p EXCEPT !.pc = "done", !.button = TRUE, !.writes = @ + 1,
                   !.content = "Conversion Complete!"]
    ELSE ShowError([p EXCEPT !.button = TRUE], "TypeError")

PollStep(p) ==
    /\ poll' = p
    /\ UNCHANGED <<runs, clients, pair, posts, schedVars, convVars, dlVars, parseVars,
                   mailVars, driveVars, jobVars>>

\* pollJobStatus(jobId) calls poll(), which issues the first status request
PollCall ==
    /\ poll.pc = "idle"
    /\ PollStep([poll EXCEPT !.pc = "fetching", !.requests = @ + 1])

\* the request settles and the rest of poll runs (lines 183-200):
\* updateProgress throws on a body without logs; then the branches on
\* job.status
PollSettles ==
    /\ poll.pc = "fetching"
    /\ \E r \in PollResponses :
         LET p == [poll EXCEPT !.last = IF r.kind = "job" THEN r.status ELSE r.kind]
         IN  PollStep(IF r.kind = "rejected" THEN ShowError(p, "request error")
                      ELSE IF ~r.logs THEN ShowError(p, "TypeError")
                      ELSE IF r.status = "completed" THEN ShowSuccess(p, r)
                      ELSE IF r.status = "failed" THEN ShowError(p, "Conversion failed")
                      ELSE IF p.attempts < maxAttempts
                      THEN [p EXCEPT !.attempts = @ + 1, !.pc = "waiting"]
                      ELSE ShowError(p, "Conversion timed out"))

\* setTimeout(poll, pollInterval) fires: poll issues the next request
PollTimer ==
    /\ poll.pc = "waiting"
    /\ PollStep([poll EXCEPT !.pc = "fetching", !.requests = @ + 1])

----------------------------------------------------------------------------
(* Specifications *)

\* one run of processUrls on 0..MaxItems work items
Init ==
    /\ \E key \in ApiKeys : conv = [ConvIdle EXCEPT !.apiKey = key]
    /\ \E n \in 0 .. (IF conv.apiKey = Undefined THEN MaxItemsNoKey ELSE MaxItems) :
         /\ urls = [k \in 1 .. n |-> WorkItem(k)]
         /\ results = [success |-> <<>>, failed |-> <<>>, total |-> n]
         /\ task = [k \in 1 .. n |-> "idle"]
         /\ hist = [k \in 1 .. n |-> NoHist]
    /\ i = 0
    /\ pc = "loop"
    /\ events = <<>>
    /\ batches = <<>>
    /\ delays = 0
    /\ dl = DlIdle
    /\ ParseIdle
    /\ mail = MailIdle
    /\ drive = DriveIdle
    /\ job = JobIdle
    /\ lastRead = JobIdle
    /\ ConcIdle

Next ==
    \/ StartBatch
    \/ \E k \in DOMAIN task : ConvertSettles(k)
    \/ \E k \in DOMAIN task : DownloadSettles(k)
    \/ BatchJoin
    \/ DelayElapsed
    \/ Return

Spec == Init /\ [][Next]_vars

\* one call of convertUrlToPdf
InitConvert ==
    /\ SchedIdle
    /\ \E key \in ApiKeys, fn \in ConvFileNames :
         conv = [ConvIdle EXCEPT !.apiKey = key, !.fileName = fn]
    /\ dl = DlIdle
    /\ ParseIdle
    /\ mail = MailIdle
    /\ drive = DriveIdle
    /\ job = JobIdle
    /\ lastRead = JobIdle
    /\ ConcIdle

NextConvert ==
    \/ CvRequest
    \/ CvResponse
    \/ CvData
    \/ CvEnd
    \/ CvError
    \/ CvTimeout
    \/ CvHangup
    \/ CvAborted

SpecConvert == InitConvert /\ [][NextConvert]_vars

\* one call of downloadPdf
InitDownload ==
    /\ SchedIdle
    /\ conv = ConvIdle
    /\ \E v \in BOOLEAN : dl = [DlIdle EXCEPT !.urlValid = v]
    /\ ParseIdle
    /\ mail = MailIdle
    /\ drive = DriveIdle
    /\ job = JobIdle
    /\ lastRead = JobIdle
    /\ ConcIdle

NextDownload ==
    \/ DlCall
    \/ DlOpen
    \/ DlResponse1
    \/ DlData1
    \/ DlFinish1
    \/ DlError1
    \/ DlTimeout
    \/ DlHangup
    \/ DlAborted1
    \/ DlResponse2
    \/ DlData2
    \/ DlFinish2
    \/ DlError2
    \/ DlAborted2
    \/ DlUnlink
    \/ DlObserve

SpecDownload == InitDownload /\ [][NextDownload]_vars

\* The event loop runs every callback that is ready: it does not stop while
\* an event of the call is possible, the open of the file completes, and
\* the 120s timer fires when the socket stays idle.  Whether and when the
\* servers answer is left to them.
SpecDownloadFair ==
    /\ SpecDownload
    /\ WF_vars(NextDownload)
    /\ WF_vars(DlOpen)
    /\ WF_vars(DlTimeout)

\* one call of parseUrls on a text input
InitParse ==
    /\ SchedIdle
    /\ conv = ConvIdle
    /\ dl = DlIdle
    /\ input \in Inputs
    /\ parsed = [status |-> "none", urls |-> <<>>]
    /\ mail = MailIdle
    /\ drive = DriveIdle
    /\ job = JobIdle
    /\ lastRead = JobIdle
    /\ ConcIdle

NextParse == ParseCall

SpecParse == InitParse /\ [][NextParse]_vars

\* one call of parseUrls on a json input
InitParseJson ==
    /\ SchedIdle
    /\ conv = ConvIdle
    /\ dl = DlIdle
    /\ input \in JsonInputs(MaxElems)
    /\ parsed = [status |-> "none", urls |-> <<>>]
    /\ mail = MailIdle
    /\ drive = DriveIdle
    /\ job = JobIdle
    /\ lastRead = JobIdle
    /\ ConcIdle

NextParseJson == ParseJsonCall

SpecParseJson == InitParseJson /\ [][NextParseJson]_vars

\* one call of sendPdfsViaEmail
InitMail ==
    /\ SchedIdle
    /\ conv = ConvIdle
    /\ dl = DlIdle
    /\ ParseIdle
    /\ \E size \in {0, maxSize - 1, maxSize, maxSize + 1, 2 * maxSize}, h \in BOOLEAN,
          t \in {Null, "transporter"} :
         mail = [MailIdle EXCEPT !.zipSize = size, !.htmlThrows = h, !.transporter = t]
    /\ drive = DriveIdle
    /\ job = JobIdle
    /\ lastRead = JobIdle
    /\ ConcIdle

NextMail ==
    \/ MailCall
    \/ ZipOpen
    \/ ZipOpenFails
    \/ ArchiveError
    \/ ZipClose
    \/ AfterZip
    \/ InitializeEmail
    \/ SendMail

SpecMail == InitMail /\ [][NextMail]_vars

\* one call of uploadPdfsToSharedFolder on 0..MaxFiles files
InitDrive ==
    /\ SchedIdle
    /\ conv = ConvIdle
    /\ dl = DlIdle
    /\ ParseIdle
    /\ mail = MailIdle
    /\ \E n \in 0 .. MaxFiles : drive = [DriveIdle EXCEPT !.files = n]
    /\ job = JobIdle
    /\ lastRead = JobIdle
    /\ ConcIdle

NextDrive ==
    \/ DriveCall
    \/ CreateFolderSettles
    \/ UploadSettles
    \/ ShareSettles

SpecDrive == InitDrive /\ [][NextDrive]_vars

\* one job from creation to its terminal status, with status queries
InitJob ==
    /\ SchedIdle
    /\ conv = ConvIdle
    /\ dl = DlIdle
    /\ ParseIdle
    /\ mail = MailIdle
    /\ drive = DriveIdle
    /\ job = JobIdle
    /\ lastRead = JobIdle
    /\ ConcIdle

NextJob ==
    \/ JobCreate
    \/ JobStart
    \/ JobBatchEvent
    \/ JobItemEvent
    \/ JobDeliver
    \/ JobDelivered
    \/ JobGet

SpecJob == InitJob /\ [][NextJob]_vars

\* the other subsystems at rest
OthersIdle ==
    /\ SchedIdle
    /\ conv = ConvIdle
    /\ dl = DlIdle
    /\ ParseIdle
    /\ mail = MailIdle
    /\ drive = DriveIdle
    /\ job = JobIdle
    /\ lastRead = JobIdle
    /\ poll = <<>>

\* two calls of processUrls, each on 0..MaxItemsNoKey items
InitRuns ==
    /\ OthersIdle
    /\ runs \in [1 .. 2 -> {NewRun(n) : n \in 0 .. MaxItemsNoKey}]
    /\ clients = <<>>
    /\ pair = <<>>
    /\ posts = <<>>

NextRuns ==
    \/ \E r \in DOMAIN runs : RunStartBatch(r)
    \/ \E r \in DOMAIN runs : RunItemSettles(r)
    \/ \E r \in DOMAIN runs : RunBatchJoin(r)
    \/ \E r \in DOMAIN runs : RunDelayElapsed(r)
    \/ \E r \in DOMAIN runs : RunReturn(r)

SpecRuns == InitRuns /\ [][NextRuns]_vars

\* two callers of initializeDrive and initializeEmail in a fresh process
InitClients ==
    /\ OthersIdle
    /\ runs = <<>>
    /\ \E oauth \in BOOLEAN : clients = NewClients(oauth)
    /\ pair = <<>>
    /\ posts = <<>>

NextClients ==
    \/ \E c \in 1 .. 2 : DriveInitCall(c)
    \/ \E c \in 1 .. 2 : EmailInitCall(c)
    \/ \E c \in 1 .. 2 : EmailTokenSettles(c)

SpecClients == InitClients /\ [][NextClients]_vars

InitPair ==
    /\ pair = NewPair
    /\ runs = <<>> /\ clients = <<>> /\ posts = <<>>
    /\ OthersIdle

NextPair ==
    \E c \in 1 .. 2 :
        \/ PairCall(c) \/ PairOpen(c) \/ PairResponse1(c) \/ PairResponse2(c)
        \/ PairData(c) \/ PairFinish(c) \/ PairError1(c) \/ PairError2(c)
        \/ PairTimeout(c) \/ PairUnlink(c)

SpecPair == InitPair /\ [][NextPair]_vars

InitPosts ==
    /\ posts = NewPosts
    /\ runs = <<>> /\ clients = <<>> /\ pair = <<>>
    /\ OthersIdle

NextPosts ==
    \E c \in 1 .. 2 :
        \/ PostCall(c) \/ PostZipOpen(c) \/ PostArchiveError(c) \/ PostZipClose(c)
        \/ PostInitializeEmail(c) \/ PostAttach(c) \/ PostSendSettles(c)

SpecPosts == InitPosts /\ [][NextPosts]_vars

InitPoll ==
    /\ poll = NewPoll
    /\ runs = <<>> /\ clients = <<>> /\ pair = <<>> /\ posts = <<>>
    /\ SchedIdle
    /\ conv = ConvIdle
    /\ dl = DlIdle
    /\ ParseIdle
    /\ mail = MailIdle
    /\ drive = DriveIdle
    /\ job = JobIdle
    /\ lastRead = JobIdle

NextPoll == PollCall \/ PollSettles \/ PollTimer

SpecPoll == InitPoll /\ [][NextPoll]_vars

\* The browser runs poll when it is called and fires its timers; every
\* status request is taken to settle, answered or failed.
SpecPollFair ==
    /\ SpecPoll
    /\ WF_vars(PollCall)
    /\ WF_vars(PollTimer)
    /\ WF_vars(PollSettles)

----------------------------------------------------------------------------
(* Properties of processUrls, checked under Spec *)

InFlight == {k \in DOMAIN task : task[k] \in {"converting", "downloading"}}

Indexes(records) == {records[x].index : x \in DOMAIN records}

\* C1: when processUrls resolves, success.length + failed.length equals the
\* number N of work items, and total equals N.
C1_ResultCount ==
    pc = "done" =>
        /\ Len(results.success) + Len(results.failed) = Len(urls)
        /\ results.total = Len(urls)

C1_Witness ==
    /\ pc = "done" /\ Len(urls) > batchSize
    /\ Len(results.success) >= 2
    /\ \E k \in DOMAIN hist : hist[k].conv \notin {"none", "success"}
    /\ \E k \in DOMAIN hist : hist[k].dl = "HTTP 404"

\* C2: an item whose conversion succeeds and whose download then fails is
\* recorded in failed with the download's error message, and never in success.
C2_DownloadFailure ==
    \A k \in DOMAIN hist :
        (hist[k].conv = "success" /\ hist[k].dl \notin {"none", DlResolved}) =>
            /\ \E x \in DOMAIN results.failed :
                 results.failed[x].index = k /\ results.failed[x].error = hist[k].dl
            /\ k \notin Indexes(results.success)

C2_Witness ==
    \E k \in DOMAIN hist :
        /\ hist[k].conv = "success" /\ hist[k].dl = "HTTP 404"
        /\ task[k] = "fulfilled" /\ pc = "done"

\* C3: for N items exactly ceil(N/5) batches are scheduled, all but possibly
\* the last holding 5 items, and exactly max(0, ceil(N/5) - 1) pacing delays
\* occur, one after each batch except the final one.
C3_BatchesAndDelays ==
    LET n  == Len(urls)
        nb == Ceil(n, batchSize)
    IN  /\ Len(batches) <= nb
        /\ \A b \in DOMAIN batches :
             batches[b] = IF b < nb THEN batchSize ELSE n - batchSize * (nb - 1)
        /\ pc \in {"loop", "done"} /\ batches # <<>> =>
             delays = IF Len(batches) < nb THEN Len(batches) ELSE nb - 1
        /\ pc = "join" => delays = Len(batches) - 1
        /\ pc = "delay" => delays = Len(batches) /\ Len(batches) < nb
        /\ pc = "done" =>
             /\ Len(batches) = nb
             /\ delays = IF nb = 0 THEN 0 ELSE nb - 1

C3_Witness ==
    /\ pc = "done" /\ Len(urls) = 12
    /\ batches = <<5, 5, 2>> /\ delays = 2

\* C4: no item of a batch is in flight before every item of the earlier
\* batches has resolved and the pacing delay after the previous batch has
\* elapsed; at most 5 items are in flight at any moment.
C4_SequentialBatches ==
    /\ Cardinality(InFlight) <= batchSize
    /\ pc = "delay" => InFlight = {}
    /\ \A k \in InFlight :
         /\ \A j \in DOMAIN task :
              (j - 1) \div batchSize < (k - 1) \div batchSize => task[j] = "fulfilled"
         /\ delays = (k - 1) \div batchSize
         /\ pc = "join"

C4_Witness ==
    /\ Cardinality(InFlight) = 1 /\ Len(urls) > batchSize
    /\ \A k \in InFlight : k > batchSize /\ task[k] = "downloading"
    /\ delays = 1

\* C5: whatever conversions and downloads fail, processUrls never rejects and
\* never skips an item: it resolves only after every item has been converted
\* (and downloaded where the conversion succeeded) and recorded.
C5_NeverRejects ==
    /\ pc # "rejected"
    /\ \A k \in DOMAIN task : task[k] # "rejected"
    /\ pc = "done" =>
         \A k \in DOMAIN task :
            /\ task[k] = "fulfilled"
            /\ hist[k].conv # "none"
            /\ hist[k].conv = "success" => hist[k].dl # "none"
            /\ k \in Indexes(results.success) \cup Indexes(results.failed)

C5_Witness ==
    /\ pc = "done" /\ Len(urls) > batchSize
    /\ Len(results.failed) = Len(urls)
    /\ \E k \in DOMAIN hist : hist[k].dl = "HTTP 404"
    /\ \E k \in DOMAIN hist : hist[k].conv = "Unknown API error"

----------------------------------------------------------------------------
(* Properties of convertUrlToPdf, checked under SpecConvert *)

C7_Non2xxIsFailure ==
    (conv.last = "end" /\ conv.promise = "fulfilled") =>
        (conv.value.success <=> (Is2xx(conv.status) /\ Truthy(conv.body.FileUrl)))

----------------------------------------------------------------------------
(* Properties of downloadPdf, checked under SpecDownload *)

\* C8: downloadPdf follows exactly one redirect hop: when the response to the
\* redirected request is itself a redirect or is not 2xx, the promise is not
\* fulfilled with localPath; a first response that is neither 2xx nor 301/302
\* is rejected.
C8_OneRedirectHop ==
    /\ (dl.req2 \in {"streaming", "ended"} /\ ~Is2xx(dl.status2)) =>
          dl.promise # "fulfilled"
    /\ (dl.req1 = "refused") => dl.promise = "rejected"

\* C9: on every failure path of downloadPdf (bad status, request error,
\* redirect request error, timeout) the file at localPath has been removed by
\* the time the caller observes the rejection.
C9_FileRemovedOnFailure ==
    (dl.urlValid /\ dl.promise = "rejected" /\ dl.observed) => ~dl.seenFile

----------------------------------------------------------------------------
(* Properties of parseUrls, checked under SpecParse *)

\* The lines, fields and trimmed fields of a text, described by positions in
\* the text rather than by splitting it.

\* first positions of the lines: a character that is not a line break and
\* that starts the text or follows a line break
LineStarts(s) ==
    {a \in 1 .. Len(s) : ~IsNewline(s[a]) /\ (a = 1 \/ IsNewline(s[a - 1]))}

\* last position of the line that starts at a
LineEnd(s, a) ==
    CHOOSE b \in a .. Len(s) :
        /\ \A x \in a .. b : ~IsNewline(s[x])
        /\ b = Len(s) \/ IsNewline(s[b + 1])

\* the n-th comma-separated field (n >= 1) of the line s[a..b]
FieldAt(s, a, b, n) ==
    LET P == {x \in a .. b : s[x] # "," /\
                             Cardinality({y \in a .. x : s[y] = ","}) = n - 1}
    IN  IF P = {} THEN <<>>
        ELSE SubSeq(s, CHOOSE x \in P : \A y \in P : x <= y,
                       CHOOSE x \in P : \A y \in P : x >= y)

\* t without its leading and trailing white space
Trimmed(t) ==
    LET P == {x \in DOMAIN t : ~IsSpace(t[x])}
    IN  IF P = {} THEN <<>>
        ELSE SubSeq(t, CHOOSE x \in P : \A y \in P : x <= y,
                       CHOOSE x \in P : \A y \in P : x >= y)

FieldOf(s, a, n) == Trimmed(FieldAt(s, a, LineEnd(s, a), n))

HasScheme(u) ==
    \/ Len(u) >= 7 /\ \A x \in 1 .. 7 : u[x] = HTTP[x]
    \/ Len(u) >= 8 /\ \A x \in 1 .. 8 : u[x] = HTTPS[x]

\* the lines that the claim says become work items
AcceptedStarts(s) ==
    {a \in LineStarts(s) :
        /\ \E x \in a .. LineEnd(s, a) : ~IsSpace(s[x])
        /\ HasScheme(FieldOf(s, a, 1))}

\* C10: in text format a non-blank line becomes a work item if and only if
\* its first comma-separated field, trimmed, starts with http:// or https://;
\* an accepted line "U, L, F" yields url U, label L and fileName F, and the
\* items are in input order.
C10_TextLines ==
    parsed.status = "returned" =>
        LET A == AcceptedStarts(input)
        IN  /\ Len(parsed.urls) = Cardinality(A)
            /\ \A j \in DOMAIN parsed.urls :
                 LET a == CHOOSE a \in A : Cardinality({a2 \in A : a2 < a}) = j - 1
                 IN  /\ parsed.urls[j].url = FieldOf(input, a, 1)
                     /\ parsed.urls[j].label = FieldOf(input, a, 2)
                     /\ FieldOf(input, a, 3) # <<>> =>
                          parsed.urls[j].fileName = FieldOf(input, a, 3)

\* an accepted line with a label and a file name
C10_Witness ==
    /\ parsed.status = "returned"
    /\ input = HTTPS \o <<",", "x", ",", "x">>
    /\ parsed.urls = <<[url |-> HTTPS, label |-> <<"x">>, fileName |-> <<"x">>]>>

\* a file name of the default pattern PDF_nnn.pdf
IsDefaultName(name) == \E n \in 0 .. 99 : name = DefaultFileName(n)

\* C11: the default file name given to an item without an explicit file name
\* is PDF_<k>.pdf, k being the item's 1-based position in the returned
\* sequence, zero-padded to 3 digits; dropped lines or elements before it do
\* not advance k.
C11_DefaultNameByPosition ==
    parsed.status = "returned" =>
        \A j \in DOMAIN parsed.urls :
            IsDefaultName(parsed.urls[j].fileName) =>
                parsed.urls[j].fileName = DefaultFileName(j)


----------------------------------------------------------------------------
(* Properties of parseUrls in json format, checked under SpecParseJson *)

\* the input decodes to an array
DecodesToArray == JSONParse(input).ok /\ JSONParse(input).val.k = "arr"

\* the elements of the decoded array
Decoded == JSONParse(input).val.items

\* an element with a usable URL: a string, or an object whose url is truthy
Usable(e) == e.k = "str" \/ JsTruthy(Get(e, Key.url))

\* C12: in json format every element of the decoded sequence that lacks a
\* usable URL (an object without url or with an empty url, a number, a
\* boolean, null) is dropped silently: the call raises no error and returns
\* one item for each of the other elements.
C12_UnusableDropped ==
    (parsed.status # "none" /\ DecodesToArray) =>
        /\ parsed.status = "returned"
        /\ Len(parsed.urls) = Cardinality({n \in DOMAIN Decoded : Usable(Decoded[n])})

\* C13: in json format the call raises 'Invalid JSON format' for every input
\* that fails to decode and for no input that decodes; an input that decodes
\* to a value that is not a sequence yields the empty list.
C13_ErrorIffUndecodable ==
    parsed.status # "none" =>
        /\ parsed.status = "thrown" <=> ~JSONParse(input).ok
        /\ (JSONParse(input).ok /\ ~DecodesToArray) => parsed.urls = <<>>

----------------------------------------------------------------------------
(* Properties of sendPdfsViaEmail, checked under SpecMail *)

\* C14: when the created archive is larger than 25MB the result is
\* success:false with the size-exceeded message, sendMail has not been
\* called and the archive file is removed; an archive of exactly 25MB is
\* not refused for its size.
C14_SizeLimit ==
    (mail.pc = "returned" /\ mail.zip = "resolved") =>
        /\ mail.zipSize > maxSize =>
              /\ mail.result = MailFailure("ZIP file too large")
              /\ mail.sendCalls = 0
              /\ ~mail.exists
        /\ mail.zipSize <= maxSize => mail.result.error # "ZIP file too large"

C14_Witness ==
    /\ mail.pc = "returned"
    /\ mail.zip = "resolved"
    /\ mail.zipSize = maxSize + 1
    /\ mail.unlinks = 1

\* C15: after sendPdfsViaEmail has returned, on every path, the archive
\* file it created does not exist.
C15_ArchiveRemoved == mail.pc = "returned" => ~mail.exists

----------------------------------------------------------------------------
(* Properties of uploadPdfsToSharedFolder, checked under SpecDrive *)

\* C16: a failed upload prevents neither the upload attempts of the other
\* files nor the share step; when folder creation and sharing succeed the
\* result is success:true with a share link, uploadedFiles + failedFiles is
\* the number of files and failedFiles the number of uploads that failed.
C16_FailuresTallied ==
    /\ (drive.pc = "returned" /\ drive.result.error # "folder error") =>
          /\ drive.uploadCalls = drive.files
          /\ drive.shareCalls = 1
    /\ (drive.pc = "returned" /\ drive.result.error \notin {"folder error", "share error"}) =>
          /\ drive.result.success
          /\ drive.result.shareLink = "link"
          /\ drive.result.uploadedFiles + drive.result.failedFiles = drive.files
          /\ drive.result.failedFiles = drive.rejected

\* 2 of 10 uploads failed
C16_Witness ==
    /\ drive.pc = "returned"
    /\ drive.files = 10
    /\ drive.rejected = 2
    /\ drive.result.success
    /\ drive.result.failedFiles = 2

----------------------------------------------------------------------------
(* Properties of the job record, checked under SpecJob *)

\* the transitions the lifecycle allows
Forward ==
    {<<"none", "queued">>, <<"queued", "processing">>,
     <<"processing", "uploading">>, <<"processing", "sending">>,
     <<"uploading", "completed">>, <<"sending", "completed">>}
    \cup {<<s, "failed">> : s \in {"queued", "processing", "uploading", "sending"}}

\* C17: a job's status only moves forward along queued -> processing ->
\* (uploading | sending) -> completed, or to failed from a status that is
\* not terminal; it never moves backward and never leaves completed or
\* failed.
C17_StatusForward ==
    [][job'.status # job.status => <<job.status, job'.status>> \in Forward]_vars

C17_Witness ==
    /\ job.status = "completed"
    /\ lastRead.status = "sending"

\* C18: successCount + failedCount <= totalUrls in every state, with
\* equality once the status is completed or failed.
C18_Counts ==
    /\ job.successCount + job.failedCount <= job.totalUrls
    /\ job.status \in Terminal => job.successCount + job.failedCount = job.totalUrls

C18_Witness ==
    /\ job.status = "failed"
    /\ job.totalUrls = MaxJobItems
    /\ job.successCount > 0
    /\ job.failedCount > 0

C20_TerminalFrozen ==
    /\ [](lastRead.status \in Terminal => job = lastRead)
    /\ [][job.status \in Terminal => job' = job]_vars

C20_Witness ==
    /\ lastRead.status = "completed"
    /\ lastRead.logs > lastRead.totalUrls
    /\ job.deliveryResult = "drive"

----------------------------------------------------------------------------
(* Further properties of processUrls, checked under Spec *)

\* C21: convertUrlToPdf is invoked exactly once per work item, with no retry,
\* and downloadPdf at most once per item and only after that item's
\* conversion returned success.  An item is in a call only while that call
\* has no recorded outcome, an outcome once recorded never changes, and at
\* the end every item has a conversion outcome.
C21_OneAttempt ==
    /\ [](\A k \in DOMAIN task :
            /\ task[k] = "idle" => hist[k] = NoHist
            /\ task[k] = "converting" => hist[k] = NoHist
            /\ task[k] = "downloading" => hist[k].conv = "success" /\ hist[k].dl = "none"
            /\ hist[k].dl # "none" => hist[k].conv = "success"
            /\ pc = "done" => hist[k].conv # "none")
    /\ [][\A k \in DOMAIN hist :
            /\ hist[k].conv # "none" => hist'[k].conv = hist[k].conv
            /\ hist[k].dl # "none" => hist'[k].dl = hist[k].dl]_vars

C21_Witness ==
    /\ pc = "done" /\ Len(urls) = MaxItems
    /\ \E k \in DOMAIN hist : hist[k].conv = "success" /\ hist[k].dl = DlResolved
    /\ \E k \in DOMAIN hist : hist[k].conv = "success" /\ hist[k].dl = "HTTP 404"
    /\ \E k \in DOMAIN hist : hist[k].conv \notin {"none", "success"} /\ hist[k].dl = "none"

\* the positions of the batch events and of the item events in the stream
BatchEventAt == {p \in DOMAIN events : events[p].type = "batch"}
ItemEventAt == DOMAIN events \ BatchEventAt

\* the indexes of the items whose event precedes position p
ItemsBefore(p) == {events[q].index : q \in {x \in ItemEventAt : x < p}}

\* C22: the event stream holds exactly one batch event per batch, emitted
\* before any item event of that batch and after all item events of the
\* batch before it, with processed = 5*(k-1) for batch k; and exactly one
\* success or failed event per item, emitted after the item has been
\* recorded in the result.
C22_EventStream ==
    /\ Cardinality(BatchEventAt) = Len(batches)
    /\ \A p \in BatchEventAt :
         /\ events[p].current = Cardinality({q \in BatchEventAt : q <= p})
         /\ events[p].processed = batchSize * (events[p].current - 1)
         /\ ItemsBefore(p) = 1 .. events[p].processed
    /\ \A p \in ItemEventAt :
         /\ \E q \in BatchEventAt :
              /\ q < p
              /\ events[p].index \in events[q].processed + 1 .. events[q].processed + batchSize
         /\ events[p].index \notin ItemsBefore(p)
         /\ events[p].index \in
              Indexes(IF events[p].type = "success" THEN results.success ELSE results.failed)
    /\ pc = "done" => ItemsBefore(Len(events) + 1) = DOMAIN urls

C22_Witness ==
    /\ pc = "done" /\ Len(urls) = MaxItems
    /\ Cardinality(BatchEventAt) = 2
    /\ \E p, q \in ItemEventAt :
         p < q /\ events[p].index > events[q].index /\ events[p].type # events[q].type

\* C23: when processUrls resolves for N items, the indexes carried by the
\* records of success and failed together are exactly 1..N, each once, and
\* the record with index i describes the i-th input item.
C23_IndexesRecoverable ==
    pc = "done" =>
        /\ Indexes(results.success) \cup Indexes(results.failed) = DOMAIN urls
        /\ Len(results.success) + Len(results.failed) = Len(urls)
        /\ \A x \in DOMAIN results.success :
             results.success[x].url = urls[results.success[x].index].url
        /\ \A x \in DOMAIN results.failed :
             results.failed[x].url = urls[results.failed[x].index].url

C23_Witness ==
    /\ pc = "done" /\ Len(urls) = MaxItems
    /\ \E x, y \in DOMAIN results.success :
         x < y /\ results.success[x].index > results.success[y].index
    /\ \E x, y \in DOMAIN results.failed :
         x < y /\ results.failed[x].index > results.failed[y].index

----------------------------------------------------------------------------
(* Properties of concurrent runs of processUrls, checked under SpecRuns *)

\* C24: of two concurrent runs each has at most 5 items in flight, and a
\* run's batch join and pacing delay depend on that run alone: the join is
\* possible as soon as the run's own batch has settled and the delay can
\* always elapse, whatever the other run does, and no step of one run
\* changes the other.  Nothing bounds the two runs together.
C24_IndependentRuns ==
    /\ [](\A r \in DOMAIN runs :
            /\ runs[r].inflight <= batchSize
            /\ (runs[r].pc = "join" /\ runs[r].inflight = 0) => ENABLED RunBatchJoin(r)
            /\ runs[r].pc = "delay" => ENABLED RunDelayElapsed(r))
    /\ [][\A r, q \in DOMAIN runs : (r # q /\ runs'[r] # runs[r]) => runs'[q] = runs[q]]_vars

\* ten items in flight, one run in its second batch and the other in its first
C24_Witness ==
    /\ runs[1].inflight + runs[2].inflight = 2 * batchSize
    /\ runs[1].batches = 2
    /\ runs[2].batches = 1

----------------------------------------------------------------------------
(* Further properties of uploadPdfsToSharedFolder, checked under SpecDrive *)

\* C25: the folder is created before any upload starts, the uploads run one
\* at a time in the order of the input list, the permission grant is issued
\* only after every upload has been attempted, and the results list is in
\* input order.
C25_UploadOrder ==
    /\ drive.pc \in {"idle", "folder"} => drive.uploadCalls = 0 /\ drive.shareCalls = 0
    /\ drive.result.error = "folder error" => drive.uploadCalls = 0 /\ drive.shareCalls = 0
    /\ drive.uploadCalls - Len(drive.uploadResults) = IF drive.pc = "upload" THEN 1 ELSE 0
    /\ drive.pc = "upload" => drive.k = drive.uploadCalls /\ drive.shareCalls = 0
    /\ drive.shareCalls > 0 => Len(drive.uploadResults) = drive.files
    /\ \A n \in DOMAIN drive.uploadResults : drive.uploadResults[n].file = n

C25_Witness ==
    /\ drive.pc = "share"
    /\ drive.files = 3
    /\ ~drive.uploadResults[1].success
    /\ drive.uploadResults[2].success
    /\ ~drive.uploadResults[3].success

\* C26: the call never rejects; it returns success:false exactly when the
\* folder creation or the permission-grant step failed, and success:true in
\* every other case, also when every upload failed.
C26_NeverRejects ==
    /\ drive.pc \in {"idle", "folder", "upload", "share", "returned"}
    /\ drive.pc = "returned" =>
         /\ drive.result.success <=> drive.result.error = "none"
         /\ ~drive.result.success =>
              \/ drive.result.error = "folder error" /\ drive.shareCalls = 0
              \/ drive.result.error = "share error" /\ drive.shareCalls = 1
         /\ drive.result.success =>
              drive.shareCalls = 1 /\ drive.result.failedFiles = drive.rejected

\* every upload failed, the folder was created and shared
C26_Witness ==
    /\ drive.pc = "returned"
    /\ drive.files = MaxFiles
    /\ drive.rejected = drive.files
    /\ drive.result.success
    /\ drive.result.uploadedFiles = 0

----------------------------------------------------------------------------
(* Properties of the cached clients, checked under SpecClients *)

\* C27: for any interleaving of concurrent first calls the Drive client and
\* the mail transporter are each constructed at most once, every caller
\* receives the same instance, and a call that failed leaves the cache as it
\* was, so that a later call tries again.
C27_InitializeOnce ==
    /\ clients.driveBuilt <= 1
    /\ clients.mailBuilt <= 1
    /\ \A c \in 1 .. 2 :
         /\ clients.d[c].pc = "returned" => clients.d[c].got = clients.driveClient
         /\ clients.m[c].pc = "returned" => clients.m[c].got = clients.transporter
    /\ (\A c \in 1 .. 2 : clients.d[c].pc # "returned") => clients.driveClient = 0
    /\ (\A c \in 1 .. 2 : clients.m[c].pc # "returned") => clients.transporter = 0

----------------------------------------------------------------------------
(* Properties of two downloads to one path, checked under SpecPair *)

\* the file at the path is the one call c's stream opened, and holds what
\* c wrote and nothing else
OwnFile(c) ==
    /\ pair.exists
    /\ pair.ino = pair.d[c].fd
    /\ pair.wrote[pair.ino] = {c}

\* C28: once both items that share a local path have settled, every one of
\* them that was recorded in success (its download resolved) refers to a
\* file that exists and was written by its own download only.
C28_SuccessFilesIntact ==
    (\A c \in 1 .. 2 : pair.d[c].promise # "pending")
        => \A c \in 1 .. 2 : pair.d[c].promise = "fulfilled" => OwnFile(c)

----------------------------------------------------------------------------
(* Properties of two deliveries to one archive path, checked under SpecPosts *)

\* C29: a sendPdfsViaEmail call that has returned reports success:true
\* exactly when the mail transport accepted its message, whatever the other
\* delivery on the same archive path did meanwhile.
C29_SuccessIffAccepted ==
    \A c \in 1 .. 2 :
        posts.p[c].pc = "returned" => (posts.p[c].success <=> posts.p[c].accepted)

----------------------------------------------------------------------------
(* Properties of downloadPdf under fair scheduling, checked under
   SpecDownloadFair *)

\* what the caller gets from the promise
Outcome(c) == <<c.promise, c.value>>

\* C30: every downloadPdf call eventually settles, fulfilled with localPath
\* or rejected with an error, and once it has settled no later event of the
\* call changes the outcome its caller gets.
C30_SettlesForGood ==
    /\ <>(dl.promise # "pending")
    /\ [][dl.promise # "pending" => Outcome(dl') = Outcome(dl)]_vars

----------------------------------------------------------------------------
(* Properties of pollJobStatus, checked under SpecPollFair *)

\* the answers after which poll schedules no further request
PollFinal == {"completed", "failed", "rejected", "not found"}

\* C31: pollJobStatus terminates: it issues at most maxAttempts status
\* requests, none after an answer that is completed, failed, not found or a
\* request error, and it ends with exactly one outcome in the result panel
\* (success, an error, or 'Conversion timed out') and the convert button
\* enabled again.
C31_PollTerminates ==
    /\ <>(poll.pc = "done")
    /\ [](poll.requests <= maxAttempts)
    /\ [](poll.last \in PollFinal => poll.pc = "done")
    /\ [](poll.pc = "done" => poll.writes = 1 /\ poll.button /\ poll.content # "none")
    /\ [][poll.pc = "done" => poll' = poll]_vars

====
